---- MODULE Spec2Model ----
(***************************************************************************)
(* A model of collectd's MySQL plugin (src/mysql.c): the per-instance      *)
(* connection manager (getconnection), the poll cycle (mysql_read) with    *)
(* its optional sub-queries, and the replica health tracker                *)
(* (mysql_read_replica_stats).                                             *)
(*                                                                         *)
(* One poll cycle of an instance is a sequence of steps, one per blocking  *)
(* call into the client library:                                           *)
(*   idle -> getconnection -> status query and row pass -> InnoDB ->       *)
(*   primary -> replica -> wsrep -> idle                                   *)
(* The server's answers (probe result, handshake result, result sets) are  *)
(* the inputs, drawn from small sets.                                      *)
(***************************************************************************)
EXTENDS Integers, Sequences, FiniteSets, TLC

VARIABLES
  registered,   \* registered[d]: the read callback of d is registered
  db,           \* db[d]: the mysql_database_t of instance d
  pc,           \* pc[d]: position of d's mysql_read invocation
  con,          \* con[d]: the local `con' of mysql_read (result of getconnection)
  log,          \* log[d]: the library and sink calls of d's current/last cycle, in
                \* order, closed by the return of mysql_read
  cycles,       \* cycles[d]: number of mysql_read invocations started so far
  inits,        \* inits[d]: number of sessions mysql_init has created for d
  closed,       \* closed[d]: the sessions mysql_close was called on, in order
  notified,     \* notified[d]: all notifications dispatched for d, in order
  seen          \* seen[d]: what the health tracker last observed, and how often it changed

vars == <<registered, db, pc, con, log, cycles, inits, closed, notified, seen>>

----------------------------------------------------------------------------
(* Bounds of the model *)

\* Poll cycles per instance.
MaxCycles == 3

\* The configured instances.
DBs == {1, 2}

----------------------------------------------------------------------------
(* Values *)

\* A NULL pointer (MYSQL *, MYSQL_RES *): sessions are numbered from 1.
NULL == 0

\* A NULL char * (a column that is SQL NULL, an unset option).
NullStr == "<NULL>"

\* NAN, the initial value of the gauge locals of mysql_read (values are >= 0).
NAN == -1

hostname_g == "monitor"

\* db->mysql_version gates
STATUS_GLOBAL_VERSION == 50002
INNODB_METRICS_VERSION == 50600
INNODB_ENABLED_VERSION == 100500

\* mysql_read_primary_stats / mysql_read_replica_stats column counts
PRIMARY_MIN_FIELDS == 2
REPLICA_MIN_FIELDS == 33

----------------------------------------------------------------------------
(* Sequence helpers *)

SelectEv(s, kind) == SelectSeq(s, LAMBDA e : e.ev = kind)

CountEv(s, kind) == Len(SelectEv(s, kind))

RECURSIVE Concat(_)
Concat(ss) == IF ss = <<>> THEN <<>> ELSE Head(ss) \o Concat(Tail(ss))

\* Indexes of the events of a kind
IdxEv(s, kind) == {i \in 1..Len(s) : s[i].ev = kind}

----------------------------------------------------------------------------
(* mysql_config_database: the instance as registered for reading *)

\* The five boolean options of a <Database> block.
Flags == [primary_stats : BOOLEAN, replica_stats : BOOLEAN, innodb_stats : BOOLEAN,
          wsrep_stats : BOOLEAN, replica_notif : BOOLEAN]

\* Alias and Host options.
HostOptions == [alias : {NullStr, "db-alias"},
                host : {NullStr, "", "127.0.0.1", "localhost", "db1.example.org"}]

\* An instance whose stored flags start false.
mysql_database_t_stopped(name, f, h) ==
  [instance |-> name, alias |-> h.alias, host |-> h.host,
   primary_stats |-> f.primary_stats, replica_stats |-> f.replica_stats,
   innodb_stats |-> f.innodb_stats, wsrep_stats |-> f.wsrep_stats,
   replica_notif |-> f.replica_notif,
   replica_io_running |-> FALSE, replica_sql_running |-> FALSE,
   con |-> NULL, is_connected |-> FALSE, mysql_version |-> 0]

\* Lines 128-152: the struct as mysql_config_database fills it.
mysql_database_t(name, f, h) ==
  [instance |-> name, alias |-> h.alias, host |-> h.host,
   primary_stats |-> f.primary_stats, replica_stats |-> f.replica_stats,
   innodb_stats |-> f.innodb_stats, wsrep_stats |-> f.wsrep_stats,
   replica_notif |-> f.replica_notif,
   replica_io_running |-> TRUE, replica_sql_running |-> TRUE,
   con |-> NULL, is_connected |-> FALSE, mysql_version |-> 0]

\* The struct of an instance that is not configured (calloc'ed, never used).
NoDatabase ==
  mysql_database_t(NullStr,
                   [primary_stats |-> FALSE, replica_stats |-> FALSE, innodb_stats |-> FALSE,
                    wsrep_stats |-> FALSE, replica_notif |-> FALSE],
                   [alias |-> NullStr, host |-> NullStr])

\* The argument of the <Database> block of instance d.
InstanceName(d) == IF d = 1 THEN "db1" ELSE "db2"

----------------------------------------------------------------------------
(* set_host *)

\* A resolution that takes an empty Host option for a host name.
set_host_nonempty(dbr) ==
  IF dbr.alias # NullStr THEN dbr.alias
  ELSE IF dbr.host = NullStr \/ dbr.host = "127.0.0.1" \/ dbr.host = "localhost"
       THEN hostname_g
       ELSE dbr.host

\* Lines 315-324.  The names fit the buffer of the value list.
set_host(dbr) ==
  IF dbr.alias # NullStr THEN dbr.alias
  ELSE IF dbr.host = NullStr \/ dbr.host = "" \/ dbr.host = "127.0.0.1"
          \/ dbr.host = "localhost"
       THEN hostname_g
       ELSE dbr.host

----------------------------------------------------------------------------
(* The calls a cycle makes, as log entries *)

EvPing(c, ok)         == [ev |-> "ping", con |-> c, ok |-> ok]
EvClose(c)            == [ev |-> "close", con |-> c]
EvInit(c)             == [ev |-> "init", con |-> c]
EvConnect(c, ok)      == [ev |-> "connect", con |-> c, ok |-> ok]
EvQuery(c, q, ok)     == [ev |-> "query", con |-> c, query |-> q, ok |-> ok]
EvFreeResult(q)       == [ev |-> "free_result", query |-> q]
\* The warning about a result of more than one row.
EvWarning(q)          == [ev |-> "warning", query |-> q]
\* mysql_fetch_row returning a row of a result with field_num columns.
EvFetchRow(q, field_num, row) ==
  [ev |-> "fetch_row", query |-> q, field_num |-> field_num, row |-> row]
EvReturn(v)           == [ev |-> "return", value |-> v]

----------------------------------------------------------------------------
(* getconnection *)

\* The old handle is dropped without mysql_close.
CloseOld_dropped(dbr, lg) ==
  [db |-> [dbr EXCEPT !.is_connected = FALSE, !.con = NULL], log |-> lg]

\* The old handle is closed but the instance stays marked as it was.
CloseOld_marked(dbr, lg) ==
  IF dbr.con # NULL
  THEN [db |-> [dbr EXCEPT !.con = NULL], log |-> Append(lg, EvClose(dbr.con))]
  ELSE [db |-> dbr, log |-> lg]

\* Lines 273-279: mark disconnected and close the old connection before
\* initializing a new one.
CloseOld(dbr, lg) ==
  LET d1 == [dbr EXCEPT !.is_connected = FALSE]
  IN IF d1.con # NULL
     THEN [db |-> [d1 EXCEPT !.con = NULL], log |-> Append(lg, EvClose(d1.con))]
     ELSE [db |-> d1, log |-> lg]

\* A failed handshake that unsets the handle (without closing the session).
ConnectFailed_unset(dbr) == [dbr EXCEPT !.con = NULL]

\* Lines 292-299: a failed mysql_real_connect returns NULL and leaves the
\* struct as it is (db->con still holds the session mysql_init created).
ConnectFailed(dbr) == dbr

\* Lines 301-312: a successful handshake records the server version and
\* marks the instance connected.
ConnectSucceeded(dbr, v) == [dbr EXCEPT !.mysql_version = v, !.is_connected = TRUE]

\* A reconnect path that tries the handshake a second time when it fails.
Reconnect_retry(dbr, lg, nid, connect_ok, v) ==
  LET c  == CloseOld(dbr, lg)
      d2 == [c.db EXCEPT !.con = nid]
      l2 == Append(c.log, EvInit(nid))
  IN IF nid = NULL
     THEN [db |-> d2, log |-> l2, con |-> NULL]
     ELSE IF ~connect_ok
          THEN [db |-> ConnectFailed(d2),
                log |-> l2 \o << EvConnect(nid, FALSE), EvConnect(nid, FALSE) >>,
                con |-> NULL]
          ELSE [db |-> ConnectSucceeded(d2, v),
                log |-> Append(l2, EvConnect(nid, TRUE)), con |-> nid]

\* Lines 273-312, the reconnect path. nid is the session mysql_init returns
\* (NULL when it fails), connect_ok the outcome of mysql_real_connect, v the
\* version the server reports.  The result is the new struct, the extended
\* log and the returned pointer.
Reconnect(dbr, lg, nid, connect_ok, v) ==
  LET c  == CloseOld(dbr, lg)
      d2 == [c.db EXCEPT !.con = nid]
      l2 == Append(c.log, EvInit(nid))
  IN IF nid = NULL
     THEN [db |-> d2, log |-> l2, con |-> NULL]
     ELSE IF ~connect_ok
          THEN [db |-> ConnectFailed(d2), log |-> Append(l2, EvConnect(nid, FALSE)),
                con |-> NULL]
          ELSE [db |-> ConnectSucceeded(d2, v),
                log |-> Append(l2, EvConnect(nid, TRUE)), con |-> nid]

\* An acquire that reuses a connected handle without probing it.
getconnection_noprobe(dbr, lg, ping_ok, nid, connect_ok, v) ==
  IF dbr.is_connected
  THEN [db |-> dbr, log |-> lg, con |-> dbr.con]
  ELSE Reconnect(dbr, lg, nid, connect_ok, v)

\* An acquire that reads the server version again after every probe.
getconnection_refresh(dbr, lg, ping_ok, nid, connect_ok, v) ==
  IF dbr.is_connected
  THEN IF ping_ok
       THEN [db |-> [dbr EXCEPT !.mysql_version = v],
             log |-> Append(lg, EvPing(dbr.con, TRUE)), con |-> dbr.con]
       ELSE Reconnect(dbr, Append(lg, EvPing(dbr.con, FALSE)), nid, connect_ok, v)
  ELSE Reconnect(dbr, lg, nid, connect_ok, v)

\* Lines 260-313.  ping_ok is the outcome of mysql_ping, consulted only when
\* the instance is marked connected.
getconnection(dbr, lg, ping_ok, nid, connect_ok, v) ==
  IF dbr.is_connected
  THEN IF ping_ok
       THEN [db |-> dbr, log |-> Append(lg, EvPing(dbr.con, TRUE)), con |-> dbr.con]
       ELSE Reconnect(dbr, Append(lg, EvPing(dbr.con, FALSE)), nid, connect_ok, v)
  ELSE Reconnect(dbr, lg, nid, connect_ok, v)

\* The sessions closed by the calls in a log, in order.
ClosedIn(lg) ==
  LET cl == SelectEv(lg, "close") IN [i \in 1..Len(cl) |-> cl[i].con]

\* The number of sessions created by the calls in a log.
CreatedIn(lg) == Cardinality({i \in IdxEv(lg, "init") : lg[i].con # NULL})

\* mysql_read, lines 734-764: a new invocation for instance d; it acquires
\* the connection and returns -1 when that fails.
ReadConnect(d, Versions) ==
  /\ registered[d]
  /\ pc[d] = "idle"
  /\ cycles[d] < MaxCycles
  /\ \E ping_ok \in BOOLEAN, init_ok \in BOOLEAN, connect_ok \in BOOLEAN, v \in Versions :
       LET nid == IF init_ok THEN inits[d] + 1 ELSE NULL
           g   == getconnection(db[d], <<>>, ping_ok, nid, connect_ok, v)
       IN /\ db' = [db EXCEPT ![d] = g.db]
          /\ con' = [con EXCEPT ![d] = g.con]
          /\ inits' = [inits EXCEPT ![d] = @ + CreatedIn(g.log)]
          /\ closed' = [closed EXCEPT ![d] = @ \o ClosedIn(g.log)]
          /\ IF g.con = NULL
             THEN /\ log' = [log EXCEPT ![d] = Append(g.log, EvReturn(-1))]
                  /\ pc' = [pc EXCEPT ![d] = "idle"]
             ELSE /\ log' = [log EXCEPT ![d] = g.log]
                  /\ pc' = [pc EXCEPT ![d] = "status"]
  /\ cycles' = [cycles EXCEPT ![d] = @ + 1]
  /\ UNCHANGED <<registered, notified, seen>>

----------------------------------------------------------------------------
(* mysql_database_free: the read callback is unregistered (shutdown) *)

\* Lines 78-105.  The connection is closed when there is one, and the struct
\* is released with everything the instance owned.
mysql_database_free(d) ==
  /\ registered[d]
  /\ pc[d] = "idle"
  /\ registered' = [registered EXCEPT ![d] = FALSE]
  /\ closed' = [closed EXCEPT ![d] = IF db[d].con # NULL THEN Append(@, db[d].con) ELSE @]
  /\ db' = [db EXCEPT ![d] = NoDatabase]
  /\ con' = [con EXCEPT ![d] = NULL]
  /\ log' = [log EXCEPT ![d] = << >>]
  /\ UNCHANGED <<pc, cycles, inits, notified, seen>>

----------------------------------------------------------------------------
(* Strings *)

StartsWith(s, p) == Len(s) >= Len(p) /\ SubSeq(s, 1, Len(p)) = p

\* key + strlen(p)
After(s, p) == SubSeq(s, Len(p) + 1, Len(s))

Char(s, i) == SubSeq(s, i, i)

DigitValue(c) ==
  CASE c = "0" -> 0 [] c = "1" -> 1 [] c = "2" -> 2 [] c = "3" -> 3 [] c = "4" -> 4
    [] c = "5" -> 5 [] c = "6" -> 6 [] c = "7" -> 7 [] c = "8" -> 8 [] c = "9" -> 9
    [] OTHER -> -1

\* atoll on an unsigned decimal: the value of the leading digits, 0 when
\* there are none.
RECURSIVE AtollFrom(_, _, _)
AtollFrom(s, i, acc) ==
  IF i > Len(s) \/ DigitValue(Char(s, i)) < 0 THEN acc
  ELSE AtollFrom(s, i + 1, 10 * acc + DigitValue(Char(s, i)))

atoll(s) == AtollFrom(s, 1, 0)

\* atof, on the decimal integers without sign, fraction or exponent that the
\* server answers here.
atof(s) == AtollFrom(s, 1, 0)

UpperCase == "ABCDEFGHIJKLMNOPQRSTUVWXYZ"
LowerCase == "abcdefghijklmnopqrstuvwxyz"

\* tolower
ToLowerChar(c) ==
  LET at == {i \in 1..Len(UpperCase) : Char(UpperCase, i) = c}
  IN IF at = {} THEN c ELSE Char(LowerCase, CHOOSE i \in at : TRUE)

RECURSIVE ToLower(_)
ToLower(s) == IF s = "" THEN "" ELSE ToLowerChar(Char(s, 1)) \o ToLower(SubSeq(s, 2, Len(s)))

\* strcasecmp(a, b) == 0
strcasecmp_eq(a, b) == ToLower(a) = ToLower(b)

----------------------------------------------------------------------------
(* mysql_config, mysql_config_database: the configuration load *)

\* A child of the <Plugin mysql> block is [key, values, children]: its key,
\* its arguments ([type, v]) and its options.  An option is [key, value,
\* status]: value is [str, bool], the string and the boolean the
\* cf_util_get_* function stores, and status is what that function returns
\* (0, the port number for Port, or -1 when the value is not of the
\* expected type).

\* The call of a cf_util_get_* function, or the warning for an unknown key.
EvOption(key, status) == [ev |-> "option", key |-> key, status |-> status]
\* plugin_register_complex_read
EvRegister(name) == [ev |-> "register", name |-> name]
\* mysql_database_free called from mysql_config_database
EvFree == [ev |-> "free"]
\* calloc of the struct
EvCalloc(ok) == [ev |-> "calloc", ok |-> ok]
\* The return of mysql_config_database for the child ci.
EvConfigDatabase(ci, status) == [ev |-> "config_database", ci |-> ci, status |-> status]

\* Lines 165-204: the branch of one option.
ApplyOption(dbr, o) ==
  LET Is(name) == strcasecmp_eq(name, o.key)
      Set(d2) == IF o.status = 0 THEN d2 ELSE dbr
  IN IF Is("Alias") THEN [db |-> Set([dbr EXCEPT !.alias = o.value.str]), status |-> o.status]
     ELSE IF Is("Host") THEN [db |-> Set([dbr EXCEPT !.host = o.value.str]), status |-> o.status]
     ELSE IF Is("Port") THEN [db |-> dbr, status |-> IF o.status > 0 THEN 0 ELSE o.status]
     ELSE IF \E n \in {"User", "Password", "Socket", "Database", "SSLKey", "SSLCert",
                        "SSLCA", "SSLCAPath", "SSLCipher", "ConnectTimeout"} : Is(n)
          THEN [db |-> dbr, status |-> o.status]
     ELSE IF Is("MasterStats")
          THEN [db |-> Set([dbr EXCEPT !.primary_stats = o.value.bool]), status |-> o.status]
     ELSE IF Is("SlaveStats")
          THEN [db |-> Set([dbr EXCEPT !.replica_stats = o.value.bool]), status |-> o.status]
     ELSE IF Is("SlaveNotifications")
          THEN [db |-> Set([dbr EXCEPT !.replica_notif = o.value.bool]), status |-> o.status]
     ELSE IF Is("InnodbStats")
          THEN [db |-> Set([dbr EXCEPT !.innodb_stats = o.value.bool]), status |-> o.status]
     ELSE IF Is("WsrepStats")
          THEN [db |-> Set([dbr EXCEPT !.wsrep_stats = o.value.bool]), status |-> o.status]
     ELSE [db |-> dbr, status |-> -1]

\* A loop that goes on after a failure: the last option decides.
RECURSIVE ApplyOptions_last_status(_, _, _)
ApplyOptions_last_status(dbr, opts, calls) ==
  IF opts = << >> THEN [db |-> dbr, status |-> 0, calls |-> calls]
  ELSE LET r == ApplyOption(dbr, Head(opts))
           rest == ApplyOptions_last_status(r.db, Tail(opts),
                                            Append(calls, EvOption(Head(opts).key, r.status)))
       IN IF Tail(opts) = << >> THEN [rest EXCEPT !.status = r.status] ELSE rest

\* Lines 162-211: the loop over the options; it ends at the first failure.
RECURSIVE ApplyOptions(_, _, _)
ApplyOptions(dbr, opts, calls) ==
  IF opts = << >> THEN [db |-> dbr, status |-> 0, calls |-> calls]
  ELSE LET r == ApplyOption(dbr, Head(opts))
           c == Append(calls, EvOption(Head(opts).key, r.status))
       IN IF r.status # 0 THEN [db |-> r.db, status |-> r.status, calls |-> c]
          ELSE ApplyOptions(r.db, Tail(opts), c)

NoFlags == [primary_stats |-> FALSE, replica_stats |-> FALSE, innodb_stats |-> FALSE,
            wsrep_stats |-> FALSE, replica_notif |-> FALSE]

\* Lines 117-238.  calloc_ok is the outcome of calloc.  The result is the
\* returned status, whether the read callback was registered, the struct
\* it was registered with, and the calls made.
mysql_config_database(ci, calloc_ok) ==
  IF Len(ci.values) # 1 \/ ci.values[1].type # "string"
  THEN [status |-> -1, registered |-> FALSE, db |-> NoDatabase, calls |-> << >>]
  ELSE IF ~calloc_ok
  THEN [status |-> -1, registered |-> FALSE, db |-> NoDatabase,
        calls |-> << EvCalloc(FALSE) >>]
  ELSE LET db0 == mysql_database_t(ci.values[1].v, NoFlags,
                                   [alias |-> NullStr, host |-> NullStr])
           r == ApplyOptions(db0, ci.children, << EvCalloc(TRUE) >>)
       IN IF r.status = 0
          THEN [status |-> 0, registered |-> TRUE, db |-> r.db,
                calls |-> Append(r.calls, EvRegister("mysql-" \o r.db.instance))]
          ELSE [status |-> -1, registered |-> FALSE, db |-> NoDatabase,
                calls |-> Append(r.calls, EvFree)]

\* The last child of the <Plugin mysql> block.
LastChild == CHOOSE d \in DBs : \A e \in DBs : e <= d

\* mysql_config, lines 240-256: the iteration of the loop for child d, in
\* the order of the children, and the return of 0 after the last one.
mysql_config(d, Children) ==
  /\ pc[d] = "config"
  /\ \A k \in DBs : k < d => pc[k] # "config"
  /\ \E ci \in Children, calloc_ok \in BOOLEAN :
       LET r == IF strcasecmp_eq("Database", ci.key)
                THEN mysql_config_database(ci, calloc_ok)
                ELSE [status |-> -1, registered |-> FALSE, db |-> NoDatabase,
                      calls |-> << >>]
           calls == IF strcasecmp_eq("Database", ci.key)
                    THEN Append(r.calls, EvConfigDatabase(ci, r.status))
                    ELSE << EvOption(ci.key, -1) >>
       IN /\ registered' = [registered EXCEPT ![d] = r.registered]
          /\ db' = [db EXCEPT ![d] = r.db]
          /\ log' = [log EXCEPT ![d] = IF d = LastChild THEN Append(calls, EvReturn(0))
                                       ELSE calls]
  /\ pc' = [pc EXCEPT ![d] = "idle"]
  /\ UNCHANGED <<con, cycles, inits, closed, notified, seen>>

----------------------------------------------------------------------------
(* submit, gauge_submit, derive_submit, traffic_submit *)

submit(type, type_instance, ds, values, dbr) ==
  [ev |-> "submit", host |-> set_host(dbr), plugin_instance |-> dbr.instance,
   type |-> type, type_instance |-> type_instance, ds |-> ds, values |-> values]

gauge_submit(type, type_instance, value, dbr) ==
  submit(type, type_instance, "gauge", <<value>>, dbr)

derive_submit(type, type_instance, value, dbr) ==
  submit(type, type_instance, "derive", <<value>>, dbr)

traffic_submit(rx, tx, dbr) == submit("mysql_octets", NullStr, "derive", <<rx, tx>>, dbr)

----------------------------------------------------------------------------
(* exec_query *)

\* What the server can answer to a statement: mysql_real_query fails,
\* mysql_store_result fails, or a result set is stored.
QueryOutcomes == {"query_failed", "store_failed", "stored"}

\* Lines 367-386: NULL unless both calls succeed.
exec_query(outcome) == outcome = "stored"

----------------------------------------------------------------------------
(* mysql_read: the pass over the rows of the global status (lines 774-928) *)

\* The locals of mysql_read, as initialized at lines 741-753.
Locals0 ==
  [qcache_hits |-> 0, qcache_inserts |-> 0, qcache_not_cached |-> 0,
   qcache_lowmem_prunes |-> 0, qcache_queries_in_cache |-> NAN,
   threads_running |-> NAN, threads_connected |-> NAN, threads_cached |-> NAN,
   threads_created |-> 0, traffic_incoming |-> 0, traffic_outgoing |-> 0]

E(k, t, ti, ds) == [key |-> k, type |-> t, type_instance |-> ti, ds |-> ds]

\* Lines 823-852: the buffer pool chain.
InnodbBufferPoolChain == <<
  E("Innodb_buffer_pool_pages_data", "mysql_bpool_pages", "data", "gauge"),
  E("Innodb_buffer_pool_pages_dirty", "mysql_bpool_pages", "dirty", "gauge"),
  E("Innodb_buffer_pool_pages_flushed", "mysql_bpool_counters", "pages_flushed", "derive"),
  E("Innodb_buffer_pool_pages_free", "mysql_bpool_pages", "free", "gauge"),
  E("Innodb_buffer_pool_pages_misc", "mysql_bpool_pages", "misc", "gauge"),
  E("Innodb_buffer_pool_pages_total", "mysql_bpool_pages", "total", "gauge"),
  E("Innodb_buffer_pool_read_ahead_rnd", "mysql_bpool_counters", "read_ahead_rnd", "derive"),
  E("Innodb_buffer_pool_read_ahead", "mysql_bpool_counters", "read_ahead", "derive"),
  E("Innodb_buffer_pool_read_ahead_evicted", "mysql_bpool_counters", "read_ahead_evicted",
    "derive"),
  E("Innodb_buffer_pool_read_requests", "mysql_bpool_counters", "read_requests", "derive"),
  E("Innodb_buffer_pool_reads", "mysql_bpool_counters", "reads", "derive"),
  E("Innodb_buffer_pool_wait_free", "mysql_bpool_counters", "wait_free", "derive"),
  E("Innodb_buffer_pool_write_requests", "mysql_bpool_counters", "write_requests", "derive"),
  E("Innodb_buffer_pool_bytes_data", "mysql_bpool_bytes", "data", "gauge"),
  E("Innodb_buffer_pool_bytes_dirty", "mysql_bpool_bytes", "dirty", "gauge") >>

\* Lines 855-908: the second chain (data, double write, log, pages, row lock, rows).
InnodbOtherChain == <<
  E("Innodb_data_fsyncs", "mysql_innodb_data", "fsyncs", "derive"),
  E("Innodb_data_read", "mysql_innodb_data", "read", "derive"),
  E("Innodb_data_reads", "mysql_innodb_data", "reads", "derive"),
  E("Innodb_data_writes", "mysql_innodb_data", "writes", "derive"),
  E("Innodb_data_written", "mysql_innodb_data", "written", "derive"),
  E("Innodb_dblwr_writes", "mysql_innodb_dblwr", "writes", "derive"),
  E("Innodb_dblwr_pages_written", "mysql_innodb_dblwr", "written", "derive"),
  E("Innodb_dblwr_page_size", "mysql_innodb_dblwr", "page_size", "gauge"),
  E("Innodb_log_waits", "mysql_innodb_log", "waits", "derive"),
  E("Innodb_log_write_requests", "mysql_innodb_log", "write_requests", "derive"),
  E("Innodb_log_writes", "mysql_innodb_log", "writes", "derive"),
  E("Innodb_os_log_fsyncs", "mysql_innodb_log", "fsyncs", "derive"),
  E("Innodb_os_log_written", "mysql_innodb_log", "written", "derive"),
  E("Innodb_pages_created", "mysql_innodb_pages", "created", "derive"),
  E("Innodb_pages_read", "mysql_innodb_pages", "read", "derive"),
  E("Innodb_pages_written", "mysql_innodb_pages", "written", "derive"),
  E("Innodb_row_lock_time", "mysql_innodb_row_lock", "time", "derive"),
  E("Innodb_row_lock_waits", "mysql_innodb_row_lock", "waits", "derive"),
  E("Innodb_rows_deleted", "mysql_innodb_rows", "deleted", "derive"),
  E("Innodb_rows_inserted", "mysql_innodb_rows", "inserted", "derive"),
  E("Innodb_rows_read", "mysql_innodb_rows", "read", "derive"),
  E("Innodb_rows_updated", "mysql_innodb_rows", "updated", "derive") >>

\* An if / else-if chain of exact matches: the submit of the first entry
\* whose key equals `key', none when there is no such entry.
ChainSubmit(chain, key, val, dbr) ==
  LET hits == {i \in 1..Len(chain) : chain[i].key = key}
  IN IF hits = {} THEN <<>>
     ELSE LET i == CHOOSE j \in hits : \A k \in hits : j <= k
          IN << submit(chain[i].type, chain[i].type_instance, chain[i].ds, <<val>>, dbr) >>

\* The accumulators after one row whose key starts with Qcache_, Bytes_ or
\* Threads_ (lines 793-817).
Accumulate(loc, key, val) ==
  CASE key = "Qcache_hits"             -> [loc EXCEPT !.qcache_hits = val]
    [] key = "Qcache_inserts"          -> [loc EXCEPT !.qcache_inserts = val]
    [] key = "Qcache_not_cached"       -> [loc EXCEPT !.qcache_not_cached = val]
    [] key = "Qcache_lowmem_prunes"    -> [loc EXCEPT !.qcache_lowmem_prunes = val]
    [] key = "Qcache_queries_in_cache" -> [loc EXCEPT !.qcache_queries_in_cache = val]
    [] key = "Bytes_received"          -> [loc EXCEPT !.traffic_incoming = @ + val]
    [] key = "Bytes_sent"              -> [loc EXCEPT !.traffic_outgoing = @ + val]
    [] key = "Threads_running"         -> [loc EXCEPT !.threads_running = val]
    [] key = "Threads_connected"       -> [loc EXCEPT !.threads_connected = val]
    [] key = "Threads_cached"          -> [loc EXCEPT !.threads_cached = val]
    [] key = "Threads_created"         -> [loc EXCEPT !.threads_created = val]
    [] OTHER                           -> loc

\* A Com_ branch that reports the prepared statements as well.
ComSubmits_stmt(key, val, dbr) ==
  IF val = 0 THEN <<>>
  ELSE << derive_submit("mysql_commands", After(key, "Com_"), val, dbr) >>

\* Lines 782-787: the branch of the keys that start with Com_.
ComSubmits(key, val, dbr) ==
  IF val = 0 THEN <<>>
  ELSE IF ~StartsWith(key, "Com_stmt_")
       THEN << derive_submit("mysql_commands", After(key, "Com_"), val, dbr) >>
       ELSE <<>>

\* The submits one row makes (lines 781-927, the accumulating branches aside).
RowSubmits(key, val, dbr) ==
  IF StartsWith(key, "Com_") THEN ComSubmits(key, val, dbr)
  ELSE IF StartsWith(key, "Handler_") THEN
    IF val = 0 THEN <<>>
    ELSE << derive_submit("mysql_handler", After(key, "Handler_"), val, dbr) >>
  ELSE IF StartsWith(key, "Qcache_") THEN <<>>
  ELSE IF StartsWith(key, "Bytes_") THEN <<>>
  ELSE IF StartsWith(key, "Threads_") THEN <<>>
  ELSE IF StartsWith(key, "Table_locks_") THEN
    << derive_submit("mysql_locks", After(key, "Table_locks_"), val, dbr) >>
  ELSE IF dbr.innodb_stats /\ StartsWith(key, "Innodb_") THEN
    ChainSubmit(InnodbBufferPoolChain, key, val, dbr)
      \o ChainSubmit(InnodbOtherChain, key, val, dbr)
  ELSE IF StartsWith(key, "Select_") THEN
    << derive_submit("mysql_select", After(key, "Select_"), val, dbr) >>
  ELSE IF StartsWith(key, "Sort_") THEN
    IF key = "Sort_merge_passes"
    THEN << derive_submit("mysql_sort_merge_passes", NullStr, val, dbr) >>
    ELSE IF key = "Sort_rows" THEN << derive_submit("mysql_sort_rows", NullStr, val, dbr) >>
    ELSE IF key = "Sort_range" THEN << derive_submit("mysql_sort", "range", val, dbr) >>
    ELSE IF key = "Sort_scan" THEN << derive_submit("mysql_sort", "scan", val, dbr) >>
    ELSE <<>>
  ELSE IF StartsWith(key, "Slow_queries") THEN
    << derive_submit("mysql_slow_queries", NullStr, val, dbr) >>
  ELSE IF key = "Uptime" THEN << gauge_submit("uptime", NullStr, val, dbr) >>
  ELSE IF key = "Questions" THEN << gauge_submit("questions", NullStr, val, dbr) >>
  ELSE <<>>

\* A cutoff that excludes the boundary version.
StatusQuery_strict(dbr) ==
  IF dbr.mysql_version > STATUS_GLOBAL_VERSION THEN "SHOW GLOBAL STATUS" ELSE "SHOW STATUS"

\* Line 766-768
StatusQuery(dbr) ==
  IF dbr.mysql_version >= STATUS_GLOBAL_VERSION THEN "SHOW GLOBAL STATUS" ELSE "SHOW STATUS"

\* One iteration of the loop at line 774.
ClassifyRow(st, row, dbr) ==
  LET key == row[1]
      val == atoll(row[2])
  IN [loc |-> IF StartsWith(key, "Qcache_") \/ StartsWith(key, "Bytes_")
                   \/ StartsWith(key, "Threads_")
                THEN Accumulate(st.loc, key, val) ELSE st.loc,
      out |-> st.out \o << EvFetchRow(StatusQuery(dbr), 2, row) >>
                \o RowSubmits(key, val, dbr)]

RECURSIVE RowPass(_, _, _)
RowPass(st, rows, dbr) ==
  IF rows = <<>> THEN st ELSE RowPass(ClassifyRow(st, Head(rows), dbr), Tail(rows), dbr)

\* A batch that the number of queries in the cache triggers as well.
QcacheSubmits_any(loc, dbr) ==
  IF loc.qcache_hits # 0 \/ loc.qcache_inserts # 0 \/ loc.qcache_not_cached # 0
       \/ loc.qcache_lowmem_prunes # 0
       \/ (loc.qcache_queries_in_cache # NAN /\ loc.qcache_queries_in_cache # 0)
  THEN << derive_submit("cache_result", "qcache-hits", loc.qcache_hits, dbr),
          derive_submit("cache_result", "qcache-inserts", loc.qcache_inserts, dbr),
          derive_submit("cache_result", "qcache-not_cached", loc.qcache_not_cached, dbr),
          derive_submit("cache_result", "qcache-prunes", loc.qcache_lowmem_prunes, dbr),
          gauge_submit("cache_size", "qcache", loc.qcache_queries_in_cache, dbr) >>
  ELSE <<>>

\* Lines 932-940
QcacheSubmits(loc, dbr) ==
  IF loc.qcache_hits # 0 \/ loc.qcache_inserts # 0 \/ loc.qcache_not_cached # 0
       \/ loc.qcache_lowmem_prunes # 0
  THEN << derive_submit("cache_result", "qcache-hits", loc.qcache_hits, dbr),
          derive_submit("cache_result", "qcache-inserts", loc.qcache_inserts, dbr),
          derive_submit("cache_result", "qcache-not_cached", loc.qcache_not_cached, dbr),
          derive_submit("cache_result", "qcache-prunes", loc.qcache_lowmem_prunes, dbr),
          gauge_submit("cache_size", "qcache", loc.qcache_queries_in_cache, dbr) >>
  ELSE <<>>

\* A batch that any captured thread value triggers.
ThreadsSubmits_any(loc, dbr) ==
  IF loc.threads_created # 0 \/ loc.threads_running # NAN \/ loc.threads_connected # NAN
       \/ loc.threads_cached # NAN
  THEN << gauge_submit("threads", "running", loc.threads_running, dbr),
          gauge_submit("threads", "connected", loc.threads_connected, dbr),
          gauge_submit("threads", "cached", loc.threads_cached, dbr),
          derive_submit("total_threads", "created", loc.threads_created, dbr) >>
  ELSE <<>>

\* Lines 942-948
ThreadsSubmits(loc, dbr) ==
  IF loc.threads_created # 0
  THEN << gauge_submit("threads", "running", loc.threads_running, dbr),
          gauge_submit("threads", "connected", loc.threads_connected, dbr),
          gauge_submit("threads", "cached", loc.threads_cached, dbr),
          derive_submit("total_threads", "created", loc.threads_created, dbr) >>
  ELSE <<>>

\* A traffic emission that is left out when nothing was counted.
TrafficSubmits_nonzero(loc, dbr) ==
  IF loc.traffic_incoming # 0 \/ loc.traffic_outgoing # 0
  THEN << traffic_submit(loc.traffic_incoming, loc.traffic_outgoing, dbr) >>
  ELSE <<>>

\* Line 950
TrafficSubmits(loc, dbr) ==
  << traffic_submit(loc.traffic_incoming, loc.traffic_outgoing, dbr) >>

\* A pass that emits the traffic before it classifies the rows.
StatusCalls_traffic_first(rows, dbr) ==
  LET st == RowPass([loc |-> Locals0, out |-> <<>>], rows, dbr)
  IN TrafficSubmits(st.loc, dbr)
       \o st.out \o << EvFreeResult(StatusQuery(dbr)) >>
       \o QcacheSubmits(st.loc, dbr) \o ThreadsSubmits(st.loc, dbr)

\* Lines 774-950 on a stored result: the row pass, the release of the result
\* and the emission of the accumulated groups.
StatusCalls(rows, dbr) ==
  LET st == RowPass([loc |-> Locals0, out |-> <<>>], rows, dbr)
  IN st.out \o << EvFreeResult(StatusQuery(dbr)) >>
       \o QcacheSubmits(st.loc, dbr) \o ThreadsSubmits(st.loc, dbr)
       \o TrafficSubmits(st.loc, dbr)

\* A cycle that goes on to the sub-queries after a failed status query.
ReadStatus_continue(d, RowSets) ==
  /\ pc[d] = "status"
  /\ \E outcome \in QueryOutcomes :
       IF exec_query(outcome)
       THEN \E rows \in RowSets :
              log' = [log EXCEPT ![d] = Append(@, EvQuery(con[d], StatusQuery(db[d]), TRUE))
                                          \o StatusCalls(rows, db[d])]
       ELSE log' = [log EXCEPT ![d] = Append(@, EvQuery(con[d], StatusQuery(db[d]), FALSE))]
  /\ pc' = [pc EXCEPT ![d] = "innodb"]
  /\ UNCHANGED <<registered, db, con, cycles, inits, closed, notified, seen>>

\* mysql_read, lines 766-950: the global status query; -1 when it fails.
ReadStatus(d, RowSets) ==
  /\ pc[d] = "status"
  /\ \E outcome \in QueryOutcomes :
       IF exec_query(outcome)
       THEN \E rows \in RowSets :
              /\ log' = [log EXCEPT ![d] = Append(@, EvQuery(con[d], StatusQuery(db[d]), TRUE))
                                             \o StatusCalls(rows, db[d])]
              /\ pc' = [pc EXCEPT ![d] = "innodb"]
       ELSE /\ log' = [log EXCEPT ![d] = @ \o << EvQuery(con[d], StatusQuery(db[d]), FALSE),
                                                EvReturn(-1) >>]
            /\ pc' = [pc EXCEPT ![d] = "idle"]
  /\ UNCHANGED <<registered, db, con, cycles, inits, closed, notified, seen>>

----------------------------------------------------------------------------
(* mysql_read_innodb_stats *)

\* The metrics table, lines 565-605.
InnodbMetrics == <<
  E("metadata_mem_pool_size", "bytes", "", "gauge"),
  E("lock_deadlocks", "mysql_locks", "", "derive"),
  E("lock_timeouts", "mysql_locks", "", "derive"),
  E("lock_row_lock_current_waits", "mysql_locks", "", "derive"),
  E("buffer_pool_size", "bytes", "", "gauge"),
  E("os_log_bytes_written", "operations", "", "derive"),
  E("os_log_pending_fsyncs", "operations", "", "derive"),
  E("os_log_pending_writes", "operations", "", "derive"),
  E("trx_rseg_history_len", "gauge", "", "gauge"),
  E("adaptive_hash_searches", "operations", "", "derive"),
  E("file_num_open_files", "gauge", "", "gauge"),
  E("ibuf_merges_insert", "operations", "", "derive"),
  E("ibuf_merges_delete_mark", "operations", "", "derive"),
  E("ibuf_merges_delete", "operations", "", "derive"),
  E("ibuf_merges_discard_insert", "operations", "", "derive"),
  E("ibuf_merges_discard_delete_mark", "operations", "", "derive"),
  E("ibuf_merges_discard_delete", "operations", "", "derive"),
  E("ibuf_merges_discard_merges", "operations", "", "derive"),
  E("ibuf_size", "bytes", "", "gauge"),
  E("innodb_activity_count", "gauge", "", "gauge"),
  E("innodb_rwlock_s_spin_waits", "operations", "", "derive"),
  E("innodb_rwlock_x_spin_waits", "operations", "", "derive"),
  E("innodb_rwlock_s_spin_rounds", "operations", "", "derive"),
  E("innodb_rwlock_x_spin_rounds", "operations", "", "derive"),
  E("innodb_rwlock_s_os_waits", "operations", "", "derive"),
  E("innodb_rwlock_x_os_waits", "operations", "", "derive"),
  E("dml_reads", "operations", "", "derive"),
  E("dml_inserts", "operations", "", "derive"),
  E("dml_deletes", "operations", "", "derive"),
  E("dml_updates", "operations", "", "derive") >>

\* The loops at lines 618-643 and 706-728: a row whose name is in the table
\* is submitted under the table's type with the name as type instance.
TableSubmit(metrics, key, val, dbr) ==
  LET hits == {i \in 1..Len(metrics) : metrics[i].key = key}
  IN IF hits = {} THEN <<>>
     ELSE LET i == CHOOSE j \in hits : \A k \in hits : j <= k
          IN << submit(metrics[i].type, key, metrics[i].ds, <<val>>, dbr) >>

RECURSIVE TablePass(_, _, _, _, _)
TablePass(q, field_num, metrics, rows, dbr) ==
  IF rows = <<>> THEN <<>>
  ELSE << EvFetchRow(q, field_num, Head(rows)) >>
         \o TableSubmit(metrics, Head(rows)[1], atoll(Head(rows)[2]), dbr)
         \o TablePass(q, field_num, metrics, Tail(rows), dbr)

\* Lines 607-612
InnodbQuery(dbr) ==
  IF dbr.mysql_version >= INNODB_ENABLED_VERSION
  THEN "SELECT name, count, type FROM information_schema.innodb_metrics WHERE enabled"
  ELSE "SELECT name, count, type FROM information_schema.innodb_metrics WHERE status = 'enabled'"

\* Lines 556-647: the calls of mysql_read_innodb_stats.
mysql_read_innodb_stats(dbr, c, outcome, rows) ==
  IF ~exec_query(outcome) THEN << EvQuery(c, InnodbQuery(dbr), FALSE) >>
  ELSE << EvQuery(c, InnodbQuery(dbr), TRUE) >> \o TablePass(InnodbQuery(dbr), 3, InnodbMetrics, rows, dbr)
         \o << EvFreeResult(InnodbQuery(dbr)) >>

\* A gate that excludes the boundary version.
InnodbGate_strict(dbr) == dbr.mysql_version > INNODB_METRICS_VERSION /\ dbr.innodb_stats

\* Line 952
InnodbGate(dbr) == dbr.mysql_version >= INNODB_METRICS_VERSION /\ dbr.innodb_stats

\* A cycle that gives up when the InnoDB query fails.
ReadInnodb_abort(d, RowSets) ==
  /\ pc[d] = "innodb"
  /\ IF InnodbGate(db[d])
     THEN \E outcome \in QueryOutcomes :
            IF exec_query(outcome)
            THEN \E rows \in RowSets :
                   /\ log' = [log EXCEPT ![d] =
                                @ \o mysql_read_innodb_stats(db[d], con[d], outcome, rows)]
                   /\ pc' = [pc EXCEPT ![d] = "primary"]
            ELSE /\ log' = [log EXCEPT ![d] =
                              Append(@ \o mysql_read_innodb_stats(db[d], con[d], outcome, << >>),
                                     EvReturn(-1))]
                 /\ pc' = [pc EXCEPT ![d] = "idle"]
     ELSE log' = log /\ pc' = [pc EXCEPT ![d] = "primary"]
  /\ UNCHANGED <<registered, db, con, cycles, inits, closed, notified, seen>>

\* mysql_read, lines 952-953
ReadInnodb(d, RowSets) ==
  /\ pc[d] = "innodb"
  /\ IF InnodbGate(db[d])
     THEN \E outcome \in QueryOutcomes :
            \E rows \in (IF exec_query(outcome) THEN RowSets ELSE {<<>>}) :
              log' = [log EXCEPT ![d] = @ \o mysql_read_innodb_stats(db[d], con[d], outcome, rows)]
     ELSE log' = log
  /\ pc' = [pc EXCEPT ![d] = "primary"]
  /\ UNCHANGED <<registered, db, con, cycles, inits, closed, notified, seen>>

----------------------------------------------------------------------------
(* mysql_read_primary_stats *)

PrimaryQuery == "SHOW MASTER STATUS"

\* Lines 424-428 and 543-547: the second fetch, and the warning when the
\* result has more rows than the one processed.
ExtraRows(q, res) == IF Len(res.rows) > 1 THEN << EvWarning(q) >> ELSE <<>>

\* A primary sub-query that returns on an empty result without releasing it.
mysql_read_primary_stats_leak(dbr, c, outcome, res) ==
  IF ~exec_query(outcome) THEN << EvQuery(c, PrimaryQuery, FALSE) >>
  ELSE IF res.rows = <<>> THEN << EvQuery(c, PrimaryQuery, TRUE) >>
  ELSE << EvQuery(c, PrimaryQuery, TRUE) >>
       \o (IF res.field_num < PRIMARY_MIN_FIELDS THEN <<>>
           ELSE << derive_submit("mysql_log_position", "master-bin",
                                 atoll(res.rows[1][2]), dbr) >>
                \o ExtraRows(PrimaryQuery, res))
       \o << EvFreeResult(PrimaryQuery) >>

\* Lines 388-432.  A result is [field_num, rows]; a row is the tuple of its
\* columns (File, Position, ...).
mysql_read_primary_stats(dbr, c, outcome, res) ==
  IF ~exec_query(outcome) THEN << EvQuery(c, PrimaryQuery, FALSE) >>
  ELSE << EvQuery(c, PrimaryQuery, TRUE) >>
       \o (IF res.rows = <<>> THEN <<>>
           ELSE IF res.field_num < PRIMARY_MIN_FIELDS THEN <<>>
           ELSE << derive_submit("mysql_log_position", "master-bin",
                                 atoll(res.rows[1][2]), dbr) >>
                \o ExtraRows(PrimaryQuery, res))
       \o << EvFreeResult(PrimaryQuery) >>

\* mysql_read, lines 955-956
ReadPrimary(d, Results) ==
  /\ pc[d] = "primary"
  /\ IF db[d].primary_stats
     THEN \E outcome \in QueryOutcomes :
            \E res \in (IF exec_query(outcome) THEN Results ELSE {[field_num |-> 0, rows |-> <<>>]}) :
              log' = [log EXCEPT ![d] = @ \o mysql_read_primary_stats(db[d], con[d], outcome, res)]
     ELSE log' = log
  /\ pc' = [pc EXCEPT ![d] = "replica"]
  /\ UNCHANGED <<registered, db, con, cycles, inits, closed, notified, seen>>

----------------------------------------------------------------------------
(* mysql_read_replica_stats *)

ReplicaQuery == "SHOW SLAVE STATUS"

\* plugin_dispatch_notification
notify(severity, message, dbr) ==
  [ev |-> "notify", severity |-> severity, message |-> message,
   host |-> set_host(dbr), plugin_instance |-> dbr.instance]

IoWarning  == "replica I/O thread not started or not connected to primary"
IoOkay     == "replica I/O thread started and connected to primary"
SqlWarning == "replica SQL thread not started"
SqlOkay    == "replica SQL thread started"

\* A tracker that reports a running thread in every cycle.
TrackFlag_okay_always(value, stored, warning, okay, dbr) ==
  IF (value = NullStr \/ ~strcasecmp_eq(value, "yes")) /\ stored
  THEN [stored |-> FALSE, out |-> << notify("NOTIF_WARNING", warning, dbr) >>]
  ELSE IF value # NullStr /\ strcasecmp_eq(value, "yes")
       THEN [stored |-> TRUE, out |-> << notify("NOTIF_OKAY", okay, dbr) >>]
       ELSE [stored |-> stored, out |-> <<>>]

\* A level-triggered tracker: it warns whenever the thread is not running.
TrackFlag_level(value, stored, warning, okay, dbr) ==
  IF value = NullStr \/ ~strcasecmp_eq(value, "yes")
  THEN [stored |-> FALSE, out |-> << notify("NOTIF_WARNING", warning, dbr) >>]
  ELSE IF ~stored
       THEN [stored |-> TRUE, out |-> << notify("NOTIF_OKAY", okay, dbr) >>]
       ELSE [stored |-> stored, out |-> <<>>]

\* Lines 514-528 and 530-542: one flag of the health tracker.  value is the
\* column (NullStr when NULL), stored the flag in the struct.
TrackFlag(value, stored, warning, okay, dbr) ==
  IF (value = NullStr \/ ~strcasecmp_eq(value, "yes")) /\ stored
  THEN [stored |-> FALSE, out |-> << notify("NOTIF_WARNING", warning, dbr) >>]
  ELSE IF (value # NullStr /\ strcasecmp_eq(value, "yes")) /\ ~stored
       THEN [stored |-> TRUE, out |-> << notify("NOTIF_OKAY", okay, dbr) >>]
       ELSE [stored |-> stored, out |-> <<>>]

\* The value of the `bool' gauges, lines 477-485
IsYes(value) == IF value # NullStr /\ strcasecmp_eq(value, "yes") THEN 1 ELSE 0

\* Statistics that are left out while notifications are enabled.
ReplicaStats_unless_notif(row, dbr) ==
  IF dbr.replica_stats /\ ~dbr.replica_notif
  THEN << gauge_submit("bool", "slave-sql-running", IsYes(row.sql), dbr),
          gauge_submit("bool", "slave-io-running", IsYes(row.io), dbr),
          derive_submit("mysql_log_position", "slave-read", atoll(row.read_pos), dbr),
          derive_submit("mysql_log_position", "slave-exec", atoll(row.exec_pos), dbr) >>
       \o (IF row.seconds_behind # NullStr
           THEN << gauge_submit("time_offset", NullStr, atof(row.seconds_behind), dbr) >>
           ELSE <<>>)
  ELSE <<>>

\* Lines 473-497
ReplicaStats(row, dbr) ==
  IF dbr.replica_stats
  THEN << gauge_submit("bool", "slave-sql-running", IsYes(row.sql), dbr),
          gauge_submit("bool", "slave-io-running", IsYes(row.io), dbr),
          derive_submit("mysql_log_position", "slave-read", atoll(row.read_pos), dbr),
          derive_submit("mysql_log_position", "slave-exec", atoll(row.exec_pos), dbr) >>
       \o (IF row.seconds_behind # NullStr
           THEN << gauge_submit("time_offset", NullStr, atof(row.seconds_behind), dbr) >>
           ELSE <<>>)
  ELSE <<>>

\* A tracker whose SQL branch tests the I/O flag.
ReplicaNotif_io_flag(row, dbr) ==
  IF dbr.replica_notif
  THEN LET io  == TrackFlag(row.io, dbr.replica_io_running, IoWarning, IoOkay, dbr)
           sql == TrackFlag(row.sql, dbr.replica_io_running, SqlWarning, SqlOkay, dbr)
       IN [db |-> [dbr EXCEPT !.replica_io_running = io.stored,
                              !.replica_sql_running = sql.stored],
           out |-> io.out \o sql.out]
  ELSE [db |-> dbr, out |-> <<>>]

\* A tracker that runs whether notifications are enabled or not.
ReplicaNotif_always(row, dbr) ==
  LET io  == TrackFlag(row.io, dbr.replica_io_running, IoWarning, IoOkay, dbr)
      sql == TrackFlag(row.sql, dbr.replica_sql_running, SqlWarning, SqlOkay, dbr)
  IN [db |-> [dbr EXCEPT !.replica_io_running = io.stored,
                         !.replica_sql_running = sql.stored],
      out |-> io.out \o sql.out]

\* A tracker whose stored flags are one pair shared by all instances.
ReplicaNotif_shared(row, dbr) ==
  IF dbr.replica_notif
  THEN LET io  == TrackFlag(row.io, db[1].replica_io_running, IoWarning, IoOkay, dbr)
           sql == TrackFlag(row.sql, db[1].replica_sql_running, SqlWarning, SqlOkay, dbr)
       IN [db |-> [dbr EXCEPT !.replica_io_running = io.stored,
                              !.replica_sql_running = sql.stored],
           out |-> io.out \o sql.out]
  ELSE [db |-> dbr, out |-> <<>>]

\* Lines 499-543: the struct and the notifications after the tracker ran.
ReplicaNotif(row, dbr) ==
  IF dbr.replica_notif
  THEN LET io  == TrackFlag(row.io, dbr.replica_io_running, IoWarning, IoOkay, dbr)
           sql == TrackFlag(row.sql, dbr.replica_sql_running, SqlWarning, SqlOkay, dbr)
       IN [db |-> [dbr EXCEPT !.replica_io_running = io.stored,
                              !.replica_sql_running = sql.stored],
           out |-> io.out \o sql.out]
  ELSE [db |-> dbr, out |-> <<>>]

\* The row a result is processed with: lines 455-471.
RowProcessed(outcome, res) ==
  exec_query(outcome) /\ res.rows # <<>> /\ res.field_num >= REPLICA_MIN_FIELDS

\* Lines 434-554.  A result is [field_num, rows]; a row holds the columns the
\* function reads (6, 10, 11, 21, 32).  The value is the struct afterwards
\* and the calls made.
mysql_read_replica_stats(dbr, c, outcome, res) ==
  IF ~exec_query(outcome) THEN [db |-> dbr, calls |-> << EvQuery(c, ReplicaQuery, FALSE) >>]
  ELSE IF res.rows = <<>>
  THEN [db |-> dbr,
        calls |-> << EvQuery(c, ReplicaQuery, TRUE), EvFreeResult(ReplicaQuery) >>]
  ELSE IF res.field_num < REPLICA_MIN_FIELDS
  THEN [db |-> dbr,
        calls |-> << EvQuery(c, ReplicaQuery, TRUE),
                     EvFetchRow(ReplicaQuery, res.field_num, res.rows[1]),
                     EvFreeResult(ReplicaQuery) >>]
  ELSE LET row == res.rows[1]
           n   == ReplicaNotif(row, dbr)
       IN [db |-> n.db,
           calls |-> << EvQuery(c, ReplicaQuery, TRUE),
                        EvFetchRow(ReplicaQuery, res.field_num, row) >>
                     \o ReplicaStats(row, dbr) \o n.out
                     \o ExtraRows(ReplicaQuery, res)
                     \o << EvFreeResult(ReplicaQuery) >>]

\* What a replication thread column says, as the specification of the
\* tracker states it: running iff the column is present and is "yes" in
\* any letter case.
Running(value) == value \in {"yes", "yeS", "yEs", "yES", "Yes", "YeS", "YEs", "YES"}

\* The tracker's view of the observations: the last one per flag and the
\* number of times it differed from the one before (`running' before the first).
Observe(s, row) ==
  [io |-> Running(row.io), sql |-> Running(row.sql),
   io_changes |-> s.io_changes + (IF Running(row.io) # s.io THEN 1 ELSE 0),
   sql_changes |-> s.sql_changes + (IF Running(row.sql) # s.sql THEN 1 ELSE 0)]

NoResult == [field_num |-> 0, rows |-> <<>>]

\* mysql_read, lines 958-959
ReadReplica(d, Results) ==
  /\ pc[d] = "replica"
  /\ IF db[d].replica_stats \/ db[d].replica_notif
     THEN \E outcome \in QueryOutcomes :
            \E res \in (IF exec_query(outcome) THEN Results ELSE {NoResult}) :
              LET r == mysql_read_replica_stats(db[d], con[d], outcome, res)
              IN /\ db' = [db EXCEPT ![d] = r.db]
                 /\ log' = [log EXCEPT ![d] = @ \o r.calls]
                 /\ notified' = [notified EXCEPT ![d] = @ \o SelectEv(r.calls, "notify")]
                 /\ seen' = [seen EXCEPT ![d] =
                               IF RowProcessed(outcome, res) /\ db[d].replica_notif
                               THEN Observe(@, res.rows[1]) ELSE @]
     ELSE UNCHANGED <<db, log, notified, seen>>
  /\ pc' = [pc EXCEPT ![d] = "wsrep"]
  /\ UNCHANGED <<registered, con, cycles, inits, closed>>

----------------------------------------------------------------------------
(* mysql_read_wsrep_stats *)

\* The metrics table, lines 658-689.
WsrepMetrics == <<
  E("wsrep_apply_oooe", "operations", "", "derive"),
  E("wsrep_apply_oool", "operations", "", "derive"),
  E("wsrep_causal_reads", "operations", "", "derive"),
  E("wsrep_commit_oooe", "operations", "", "derive"),
  E("wsrep_commit_oool", "operations", "", "derive"),
  E("wsrep_flow_control_recv", "operations", "", "derive"),
  E("wsrep_flow_control_sent", "operations", "", "derive"),
  E("wsrep_flow_control_paused", "operations", "", "derive"),
  E("wsrep_local_bf_aborts", "operations", "", "derive"),
  E("wsrep_local_cert_failures", "operations", "", "derive"),
  E("wsrep_local_commits", "operations", "", "derive"),
  E("wsrep_local_replays", "operations", "", "derive"),
  E("wsrep_received", "operations", "", "derive"),
  E("wsrep_replicated", "operations", "", "derive"),
  E("wsrep_received_bytes", "total_bytes", "", "derive"),
  E("wsrep_replicated_bytes", "total_bytes", "", "derive"),
  E("wsrep_apply_window", "gauge", "", "gauge"),
  E("wsrep_commit_window", "gauge", "", "gauge"),
  E("wsrep_cluster_size", "gauge", "", "gauge"),
  E("wsrep_cert_deps_distance", "gauge", "", "gauge"),
  E("wsrep_local_recv_queue", "queue_length", "", "gauge"),
  E("wsrep_local_send_queue", "queue_length", "", "gauge") >>

WsrepQuery == "SHOW GLOBAL STATUS LIKE 'wsrep_%'"

\* Lines 649-732.  The row fetched at line 697 only decides whether the
\* result is empty; the loop at line 706 starts with the row after it.
mysql_read_wsrep_stats(dbr, c, outcome, rows) ==
  IF ~exec_query(outcome) THEN << EvQuery(c, WsrepQuery, FALSE) >>
  ELSE IF rows = <<>> THEN << EvQuery(c, WsrepQuery, TRUE), EvFreeResult(WsrepQuery) >>
  ELSE << EvQuery(c, WsrepQuery, TRUE), EvFetchRow(WsrepQuery, 2, Head(rows)) >>
         \o TablePass(WsrepQuery, 2, WsrepMetrics, Tail(rows), dbr)
         \o << EvFreeResult(WsrepQuery) >>

\* mysql_read, lines 961-964: the last sub-query, and the return of 0.
ReadWsrep(d, RowSets) ==
  /\ pc[d] = "wsrep"
  /\ IF db[d].wsrep_stats
     THEN \E outcome \in QueryOutcomes :
            \E rows \in (IF exec_query(outcome) THEN RowSets ELSE {<<>>}) :
              log' = [log EXCEPT ![d] =
                        Append(@ \o mysql_read_wsrep_stats(db[d], con[d], outcome, rows),
                               EvReturn(0))]
     ELSE log' = [log EXCEPT ![d] = Append(@, EvReturn(0))]
  /\ pc' = [pc EXCEPT ![d] = "idle"]
  /\ UNCHANGED <<registered, db, con, cycles, inits, closed, notified, seen>>

----------------------------------------------------------------------------
(* The server's answers *)

\* Server versions on both sides of the gate of the InnoDB metrics query.
OrchVersions == {50599, 50600}

StatusRows ==
  { << <<"Com_select", "5">>, <<"Qcache_hits", "3">>, <<"Threads_created", "2">>,
       <<"Bytes_received", "7">>, <<"Innodb_data_reads", "4">>, <<"Uptime", "9">> >> }

\* Answers to the global status query for the classifier: a busy server, a
\* quiet one, one whose variables are all unknown to the rules, one with a
\* variable that extends Slow_queries, one with few variables, and an empty
\* result.
ClassifyRows ==
  { << <<"Com_select", "5">>, <<"Com_insert", "0">>, <<"Com_stmt_execute", "4">>,
       <<"Handler_read_key", "6">>, <<"Handler_commit", "0">>,
       <<"Qcache_hits", "3">>, <<"Qcache_queries_in_cache", "5">>,
       <<"Threads_created", "2">>, <<"Threads_running", "1">>,
       <<"Bytes_received", "7">>, <<"Bytes_sent", "9">>,
       <<"Table_locks_waited", "0">>,
       <<"Innodb_data_reads", "4">>, <<"Innodb_buffer_pool_reads", "2">>,
       <<"Select_scan", "1">>, <<"Sort_rows", "2">>, <<"Slow_queries", "1">>,
       <<"Uptime", "9">>, <<"Questions", "8">> >>,
    << <<"Qcache_hits", "0">>, <<"Qcache_inserts", "0">>, <<"Qcache_not_cached", "0">>,
       <<"Qcache_lowmem_prunes", "0">>, <<"Qcache_queries_in_cache", "5">>,
       <<"Threads_created", "0">>, <<"Threads_running", "3">>,
       <<"Threads_connected", "2">>, <<"Threads_cached", "1">>,
       <<"Bytes_received", "0">>, <<"Bytes_sent", "0">>, <<"Com_stmt_close", "0">> >>,
    << <<"Max_used_connections", "4">>, <<"Uptime_since_flush_status", "7">>,
       <<"Questions_total", "1">>, <<"Innodb_unknown", "5">>,
       <<"Innodb_rows_read_total", "6">>, <<"Sort_unknown", "2">>,
       <<"Qcache_free_memory", "10">>, <<"Bytes_other", "3">>,
       <<"Threads_other", "2">>, <<"Slow_launch_threads", "1">>,
       <<"Ssl_cipher", "none">> >>,
    << <<"Slow_queries_total", "3">>, <<"Uptime", "1">> >>,
    << <<"Qcache_lowmem_prunes", "2">>, <<"Threads_created", "2">>,
       <<"Bytes_received", "7">>, <<"Bytes_received", "1">>, <<"Com_", "1">> >>,
    << >> }

InnodbRows == { << <<"lock_deadlocks", "1", "counter">>, <<"unknown_metric", "2", "counter">> >> }

PrimaryResults == { [field_num |-> 5, rows |-> << <<"binlog.000001", "1234">> >>] }

ReplicaRow(io, sql, behind) ==
  [read_pos |-> "100", io |-> io, sql |-> sql, exec_pos |-> "90", seconds_behind |-> behind]

\* Both threads running, and both stopped.
ReplicaResults ==
  { [field_num |-> 33, rows |-> << ReplicaRow("Yes", "Yes", "12") >>],
    [field_num |-> 33, rows |-> << ReplicaRow("No", "No", NullStr) >>] }

\* Every combination of the two thread columns, in several spellings, an
\* empty result and a result with too few columns.
TrackerRows == { ReplicaRow("Yes", "Yes", "12"), ReplicaRow("yes", "No", "40"),
                 ReplicaRow("No", "YES", NullStr), ReplicaRow(NullStr, NullStr, NullStr),
                 ReplicaRow("Connecting", "yEs", NullStr) }

TrackerResults ==
  { [field_num |-> 40, rows |-> << >>],
    [field_num |-> 32, rows |-> << ReplicaRow("No", "No", NullStr) >>] }
  \cup { [field_num |-> 33, rows |-> << r >>] : r \in TrackerRows }

WsrepRows ==
  { << <<"wsrep_ready", "ON">>, <<"wsrep_cluster_size", "3">>, <<"wsrep_unknown", "1">> >> }

----------------------------------------------------------------------------
(* The system *)

Seen0 == [io |-> TRUE, sql |-> TRUE, io_changes |-> 0, sql_changes |-> 0]

\* The state after the configuration was loaded: the instances in Regs are
\* registered for reading, with flags from F and Alias/Host options from H.
InitWith(Regs, F, H) ==
  /\ registered = [d \in DBs |-> d \in Regs]
  /\ \E cf \in [Regs -> F], ch \in [Regs -> H] :
       db = [d \in DBs |-> IF d \in Regs
                           THEN mysql_database_t(InstanceName(d), cf[d], ch[d])
                           ELSE NoDatabase]
  /\ pc = [d \in DBs |-> "idle"]
  /\ con = [d \in DBs |-> NULL]
  /\ log = [d \in DBs |-> << >>]
  /\ cycles = [d \in DBs |-> 0]
  /\ inits = [d \in DBs |-> 0]
  /\ closed = [d \in DBs |-> << >>]
  /\ notified = [d \in DBs |-> << >>]
  /\ seen = [d \in DBs |-> Seen0]

LocalHost == [alias |-> NullStr, host |-> "localhost"]

\* One instance, with every combination of the five flags.
Init == InitWith({1}, Flags, {LocalHost})

Next ==
  \E d \in DBs :
    \/ ReadConnect(d, OrchVersions)
    \/ ReadStatus(d, StatusRows)
    \/ ReadInnodb(d, InnodbRows)
    \/ ReadPrimary(d, PrimaryResults)
    \/ ReadReplica(d, ReplicaResults)
    \/ ReadWsrep(d, WsrepRows)
    \/ mysql_database_free(d)

Spec == Init /\ [][Next]_vars

\* One instance that collects replica status, with and without statistics
\* and notifications, against every answer to the replica status query.
ReplicaFlags == {f \in Flags : ~f.primary_stats /\ ~f.innodb_stats /\ ~f.wsrep_stats
                               /\ (f.replica_stats \/ f.replica_notif)}

InitReplica == InitWith({1}, ReplicaFlags, {LocalHost})

NextReplica ==
  \E d \in DBs :
    \/ ReadConnect(d, {50600})
    \/ ReadStatus(d, StatusRows)
    \/ ReadInnodb(d, InnodbRows)
    \/ ReadPrimary(d, PrimaryResults)
    \/ ReadReplica(d, TrackerResults)
    \/ ReadWsrep(d, WsrepRows)
    \/ mysql_database_free(d)

SpecReplica == InitReplica /\ [][NextReplica]_vars

\* One instance that collects the global status, with and without the InnoDB
\* and the cluster statistics, against a server whose answers exercise
\* every rule of the classifiers.
ClassifyFlags == {f \in Flags : ~f.primary_stats /\ ~f.replica_stats /\ ~f.replica_notif}

\* Answers to the cluster status query: a table name in the first row, an
\* unknown name in the first row, a single row, no row.
ClusterRows ==
  { << <<"wsrep_cluster_size", "3">>, <<"wsrep_local_commits", "8">>,
       <<"wsrep_unknown", "1">> >>,
    << <<"wsrep_ready", "ON">>, <<"wsrep_cluster_size", "3">>,
       <<"wsrep_received_bytes", "5">> >>,
    << <<"wsrep_received_bytes", "5">> >>,
    << >> }

InitClassify == InitWith({1}, ClassifyFlags, {LocalHost})

NextClassify ==
  \E d \in DBs :
    \/ ReadConnect(d, {50600})
    \/ ReadStatus(d, ClassifyRows)
    \/ ReadInnodb(d, InnodbRows)
    \/ ReadPrimary(d, PrimaryResults)
    \/ ReadReplica(d, ReplicaResults)
    \/ ReadWsrep(d, ClusterRows)
    \/ mysql_database_free(d)

SpecClassify == InitClassify /\ [][NextClassify]_vars

\* Server versions on both sides of the two cutoffs of the statement texts.
DialectVersions == {50001, 50002, 100499, 100500}

\* One instance, with and without the InnoDB statistics, that connects to
\* servers of these versions.
DialectFlags == {f \in ClassifyFlags : ~f.wsrep_stats}

InitDialect == InitWith({1}, DialectFlags, {LocalHost})

NextDialect ==
  \E d \in DBs :
    \/ ReadConnect(d, DialectVersions)
    \/ ReadStatus(d, StatusRows)
    \/ ReadInnodb(d, InnodbRows)
    \/ ReadPrimary(d, PrimaryResults)
    \/ ReadReplica(d, ReplicaResults)
    \/ ReadWsrep(d, WsrepRows)
    \/ mysql_database_free(d)

SpecDialect == InitDialect /\ [][NextDialect]_vars

\* One instance that collects the replica status with statistics and
\* notifications, under every combination of the Alias and Host options.
HostFlags == {f \in ReplicaFlags : f.replica_stats /\ f.replica_notif}

InitHost == InitWith({1}, HostFlags, HostOptions)

NextHost ==
  \E d \in DBs :
    \/ ReadConnect(d, {50600})
    \/ ReadStatus(d, StatusRows)
    \/ ReadInnodb(d, InnodbRows)
    \/ ReadPrimary(d, PrimaryResults)
    \/ ReadReplica(d, ReplicaResults)
    \/ ReadWsrep(d, WsrepRows)
    \/ mysql_database_free(d)

SpecHost == InitHost /\ [][NextHost]_vars

\* One instance with every sub-query enabled but no notifications, against
\* results of every shape: empty, with too few columns, with one row and
\* with more rows than the sub-query reads.
ReleaseFlags == {f \in Flags : f.primary_stats /\ f.replica_stats /\ f.innodb_stats
                               /\ f.wsrep_stats /\ ~f.replica_notif}

ReleaseStatusRows == StatusRows \cup { << >> }

ReleaseInnodbRows == InnodbRows \cup { << >> }

ReleasePrimaryResults ==
  PrimaryResults
    \cup { [field_num |-> 5, rows |-> << >>],
           [field_num |-> 1, rows |-> << <<"binlog.000001">> >>],
           [field_num |-> 5, rows |-> << <<"binlog.000001", "1234">>,
                                        <<"binlog.000002", "4">> >>] }

ReleaseReplicaResults ==
  { [field_num |-> 40, rows |-> << >>],
    [field_num |-> 32, rows |-> << ReplicaRow("No", "No", NullStr) >>],
    [field_num |-> 33, rows |-> << ReplicaRow("Yes", "Yes", "12") >>],
    [field_num |-> 33, rows |-> << ReplicaRow("Yes", "Yes", "12"),
                                  ReplicaRow("No", "Yes", "3") >>] }

ReleaseWsrepRows == WsrepRows \cup { << >> }

InitRelease == InitWith({1}, ReleaseFlags, {LocalHost})

NextRelease ==
  \E d \in DBs :
    \/ ReadConnect(d, {50600})
    \/ ReadStatus(d, ReleaseStatusRows)
    \/ ReadInnodb(d, ReleaseInnodbRows)
    \/ ReadPrimary(d, ReleasePrimaryResults)
    \/ ReadReplica(d, ReleaseReplicaResults)
    \/ ReadWsrep(d, ReleaseWsrepRows)
    \/ mysql_database_free(d)

SpecRelease == InitRelease /\ [][NextRelease]_vars

\* One instance with every other sub-query enabled, with and without replica
\* statistics and notifications, against every answer to the replica
\* status query.
TrackerFlags == {f \in Flags : f.primary_stats /\ f.innodb_stats /\ f.wsrep_stats}

InitTracker == InitWith({1}, TrackerFlags, {LocalHost})

NextTracker ==
  \E d \in DBs :
    \/ ReadConnect(d, {50600})
    \/ ReadStatus(d, StatusRows)
    \/ ReadInnodb(d, InnodbRows)
    \/ ReadPrimary(d, PrimaryResults)
    \/ ReadReplica(d, TrackerResults)
    \/ ReadWsrep(d, WsrepRows)
    \/ mysql_database_free(d)

SpecTracker == InitTracker /\ [][NextTracker]_vars

\* Poll cycles of the second instance when two instances are polled; the
\* first one polls one cycle more.
PairCycles == 1

\* Two instances that collect replica statistics and notifications.
PairFlags == {f \in ReplicaFlags : f.replica_stats /\ f.replica_notif}

InitPair == InitWith(DBs, PairFlags, {LocalHost})

\* The read callbacks of the two instances run in any interleaving.
NextPair ==
  \E d \in DBs :
    \/ cycles[d] < PairCycles + (IF d = 1 THEN 1 ELSE 0) /\ ReadConnect(d, {50600})
    \/ ReadStatus(d, StatusRows)
    \/ ReadInnodb(d, InnodbRows)
    \/ ReadPrimary(d, PrimaryResults)
    \/ ReadReplica(d, ReplicaResults)
    \/ ReadWsrep(d, WsrepRows)
    \/ mysql_database_free(d)

SpecPair == InitPair /\ [][NextPair]_vars

\* Poll cycles per instance after a configuration load.
ConfigCycles == 1

Option(key, value, status) == [key |-> key, value |-> value, status |-> status]

StrVal(s) == [str |-> s, bool |-> FALSE]

BoolVal(b) == [str |-> "", bool |-> b]

Block(key, values, children) == [key |-> key, values |-> values, children |-> children]

StringArg(v) == [type |-> "string", v |-> v]

\* The children of the <Plugin mysql> block that may stand at position d:
\* well-formed <Database> blocks (no option; options in any letter case),
\* blocks with an unknown option, with a value of the wrong type, with two
\* arguments, and a child that is not a <Database> block.
ConfigChildren(d) ==
  LET name == << StringArg(InstanceName(d)) >>
  IN { Block("Database", name, << >>),
       Block("database", name,
             << Option("hOST", StrVal("localhost"), 0), Option("Port", StrVal("3306"), 3306),
                Option("MasterStats", BoolVal(TRUE), 0) >>),
       Block("Database", name,
             << Option("Alias", StrVal("db-alias"), 0), Option("User", StrVal("monitor"), 0),
                Option("slavestats", BoolVal(TRUE), 0),
                Option("SlaveNotifications", BoolVal(FALSE), 0),
                Option("InnodbStats", BoolVal(TRUE), 0),
                Option("WsrepStats", BoolVal(TRUE), 0) >>),
       Block("Database", name,
             << Option("Host", StrVal("db1.example.org"), 0), Option("Foo", StrVal("bar"), 0),
                Option("MasterStats", BoolVal(TRUE), 0) >>),
       Block("Database", name,
             << Option("InnodbStats", StrVal("maybe"), -1),
                Option("Alias", StrVal("db-alias"), 0) >>),
       Block("Database", name,
             << Option("SlaveStats", BoolVal(TRUE), 0), Option("Port", StrVal("0"), -1) >>),
       Block("Database", name, << Option("Hosts", StrVal("localhost"), 0) >>),
       Block("Database", name \o name, << >>),
       Block("Host", name, << >>) }

\* The state before the configuration is loaded.
InitConfig ==
  /\ registered = [d \in DBs |-> FALSE]
  /\ db = [d \in DBs |-> NoDatabase]
  /\ pc = [d \in DBs |-> "config"]
  /\ con = [d \in DBs |-> NULL]
  /\ log = [d \in DBs |-> << >>]
  /\ cycles = [d \in DBs |-> 0]
  /\ inits = [d \in DBs |-> 0]
  /\ closed = [d \in DBs |-> << >>]
  /\ notified = [d \in DBs |-> << >>]
  /\ seen = [d \in DBs |-> Seen0]

\* mysql_config returned: the read callbacks are run from now on.
ConfigDone == \A d \in DBs : pc[d] # "config"

NextConfig ==
  \E d \in DBs :
    \/ mysql_config(d, ConfigChildren(d))
    \/ ConfigDone /\ cycles[d] < ConfigCycles /\ ReadConnect(d, {50600})
    \/ ReadStatus(d, StatusRows)
    \/ ReadInnodb(d, InnodbRows)
    \/ ReadPrimary(d, PrimaryResults)
    \/ ReadReplica(d, ReplicaResults)
    \/ ReadWsrep(d, WsrepRows)
    \/ ConfigDone /\ mysql_database_free(d)

SpecConfig == InitConfig /\ [][NextConfig]_vars

----------------------------------------------------------------------------
(* Replica health tracker: properties *)

\* The calls instance d makes in the step at hand.
NewCalls(d) == SubSeq(log'[d], Len(log[d]) + 1, Len(log'[d]))

\* The step at hand is the replica sub-query of d, with notifications
\* enabled and a row of at least 33 columns: the health tracker runs.
TrackerStep(d) ==
  /\ pc[d] = "replica" /\ pc'[d] = "wsrep"
  /\ db[d].replica_notif
  /\ \E i \in 1..Len(NewCalls(d)) :
       NewCalls(d)[i].ev = "fetch_row" /\ NewCalls(d)[i].field_num >= 33

\* The row the tracker is fed in a tracker step.
TrackedRow(d) ==
  LET nc == NewCalls(d) IN nc[CHOOSE i \in 1..Len(nc) : nc[i].ev = "fetch_row"].row

\* The notifications about one thread among the events of s: their severities.
Severities(s, messages) ==
  LET n == SelectSeq(s, LAMBDA e : e.ev = "notify" /\ e.message \in messages)
  IN [i \in 1..Len(n) |-> n[i].severity]

IoMessages == {"replica I/O thread not started or not connected to primary",
               "replica I/O thread started and connected to primary"}

SqlMessages == {"replica SQL thread not started", "replica SQL thread started"}

\* The transition rule for one flag: observed is what the row says, stored
\* and stored_after the flag before and after, sev the severities of the
\* notifications emitted for the flag.
TransitionRule(observed, stored, stored_after, sev) ==
  /\ (~observed /\ stored) => sev = << "NOTIF_WARNING" >>
  /\ (observed /\ ~stored) => sev = << "NOTIF_OKAY" >>
  /\ (observed = stored) => sev = << >>
  /\ stored_after = observed

\* C1: in every step in which the health tracker runs, each flag follows the
\* transition rule whatever the other flag does: not running with the stored
\* flag true gives exactly one warning, running with the stored flag false
\* exactly one OK notification, observed = stored gives nothing, and the
\* stored flag equals the observed value afterwards.
C1_TransitionRule ==
  [][\A d \in DBs :
       TrackerStep(d) =>
         /\ TransitionRule(Running(TrackedRow(d).io), db[d].replica_io_running,
                           db'[d].replica_io_running,
                           Severities(NewCalls(d), IoMessages))
         /\ TransitionRule(Running(TrackedRow(d).sql), db[d].replica_sql_running,
                           db'[d].replica_sql_running,
                           Severities(NewCalls(d), SqlMessages))
         /\ CountEv(NewCalls(d), "notify")
              = Len(Severities(NewCalls(d), IoMessages))
                + Len(Severities(NewCalls(d), SqlMessages))]_vars

\* C1 witness: the tracker has just run in a later cycle; the I/O thread came
\* back (an OK notification) while the SQL thread stayed stopped (stored flag
\* false, no notification for it).
C1_Witness ==
  \E d \in DBs :
    /\ pc[d] = "wsrep" /\ db[d].replica_notif
    /\ Severities(log[d], IoMessages) = << "NOTIF_OKAY" >>
    /\ Severities(log[d], SqlMessages) = << >>
    /\ db[d].replica_io_running /\ ~db[d].replica_sql_running

\* C2: over any sequence of cycles, the number of notifications emitted for
\* a flag equals the number of changes in the sequence of values the tracker
\* observed for it (the value before the first observation being `running'),
\* so a cycle whose observation repeats the previous one adds none.
C2_OnePerChange ==
  \A d \in DBs :
    /\ Len(Severities(notified[d], IoMessages)) = seen[d].io_changes
    /\ Len(Severities(notified[d], SqlMessages)) = seen[d].sql_changes
    /\ Len(notified[d]) = seen[d].io_changes + seen[d].sql_changes

\* C2 witness: three cycles fed the tracker, the I/O thread changed twice
\* (one warning, then one OK notification, in this order), the stored flag is
\* true again, and the SQL thread was steady throughout.
C2_Witness ==
  \E d \in DBs :
    /\ cycles[d] = 3 /\ pc[d] = "idle"
    /\ Severities(notified[d], IoMessages) = << "NOTIF_WARNING", "NOTIF_OKAY" >>
    /\ Severities(log[d], IoMessages) = << "NOTIF_OKAY" >>
    /\ Severities(notified[d], SqlMessages) = << >>
    /\ db[d].replica_io_running

\* C3: since the stored flags start true, the first observation of the
\* tracker in which a thread is not running produces a warning for that
\* thread: once a flag was observed to differ from its initial value, the
\* first notification about it is a warning.
C3_FirstStopWarns ==
  \A d \in DBs :
    /\ seen[d].io_changes >= 1 =>
         /\ Severities(notified[d], IoMessages) # << >>
         /\ Severities(notified[d], IoMessages)[1] = "NOTIF_WARNING"
    /\ seen[d].sql_changes >= 1 =>
         /\ Severities(notified[d], SqlMessages) # << >>
         /\ Severities(notified[d], SqlMessages)[1] = "NOTIF_WARNING"

\* C3 witness: the very first cycle finds both threads stopped and both
\* warnings are dispatched in it.
C3_Witness ==
  \E d \in DBs :
    /\ cycles[d] = 1 /\ pc[d] = "idle"
    /\ Severities(log[d], IoMessages) = << "NOTIF_WARNING" >>
    /\ Severities(log[d], SqlMessages) = << "NOTIF_WARNING" >>
    /\ ~db[d].replica_io_running /\ ~db[d].replica_sql_running

----------------------------------------------------------------------------
(* Connection manager: properties *)

\* Event i of a log is of one of the kinds.
IsEv(lg, i, kinds) == lg[i].ev \in kinds

\* Some earlier call of the cycle probed session c successfully, or
\* established it.
VouchedBefore(lg, i, c) ==
  \E j \in 1..(i - 1) :
    /\ IsEv(lg, j, {"ping", "connect"})
    /\ lg[j].con = c /\ lg[j].ok

\* The probe of the cycle failed on session c.
ProbeFailed(lg, c) ==
  \E j \in 1..Len(lg) : IsEv(lg, j, {"ping"}) /\ lg[j].con = c /\ ~lg[j].ok

\* C4: in every cycle each query runs on a session that answered a probe
\* earlier in the same cycle or was established earlier in the same cycle;
\* when the probe fails, the probed session is closed right after it, the
\* instance is marked disconnected until a handshake succeeds, and every
\* query of the cycle runs on a session established in this cycle.
C4_ProbeBeforeQuery ==
  \A d \in DBs :
    LET lg == log[d]
    IN /\ \A i \in 1..Len(lg) :
            IsEv(lg, i, {"query"}) =>
              /\ lg[i].con # NULL
              /\ VouchedBefore(lg, i, lg[i].con)
       /\ \A j \in 1..Len(lg) :
            (IsEv(lg, j, {"ping"}) /\ ~lg[j].ok) =>
              /\ j = 1 /\ Len(lg) >= 2
              /\ lg[2] = [ev |-> "close", con |-> lg[j].con]
              /\ \A i \in 1..Len(lg) :
                   IsEv(lg, i, {"query"}) =>
                     /\ lg[i].con # lg[j].con
                     /\ \E k \in 1..(i - 1) :
                          /\ IsEv(lg, k, {"connect"})
                          /\ lg[k].con = lg[i].con /\ lg[k].ok
              /\ (~\E k \in 1..Len(lg) : IsEv(lg, k, {"connect"}) /\ lg[k].ok)
                   => ~db[d].is_connected

\* C4 witness: the probe of a connected session failed, the session was
\* closed, a new one was established and the status query ran on it.
C4_Witness ==
  \E d \in DBs :
    /\ Len(log[d]) >= 5
    /\ log[d][1] = [ev |-> "ping", con |-> 1, ok |-> FALSE]
    /\ log[d][2] = [ev |-> "close", con |-> 1]
    /\ log[d][4] = [ev |-> "connect", con |-> 2, ok |-> TRUE]
    /\ log[d][5].ev = "query" /\ log[d][5].con = 2

\* The handshake of the cycle failed on session c.
HandshakeFailed(lg, c) ==
  \E j \in 1..Len(lg) : IsEv(lg, j, {"connect"}) /\ lg[j].con = c /\ ~lg[j].ok

\* The sessions of d that were closed.
ClosedSet(d) == {closed[d][i] : i \in 1..Len(closed[d])}

\* C5, as stated: after a failed handshake acquire returns an error and the
\* instance holds no handle and is marked disconnected.
C5_HandleUnset ==
  \A d \in DBs :
    (\E c \in 1..MaxCycles : HandshakeFailed(log[d], c)) =>
      /\ log[d][Len(log[d])] = [ev |-> "return", value |-> -1]
      /\ ~db[d].is_connected
      /\ db[d].con = NULL

\* C5, amended: after a failed handshake acquire returns an error and the
\* instance is marked disconnected, but its handle still points to the
\* session created for the failed attempt, which is not closed yet; the
\* acquire of the next cycle closes that session first.
C5_HandleKept ==
  /\ [](\A d \in DBs :
          \A c \in 1..(MaxCycles + 1) :
            HandshakeFailed(log[d], c) =>
              /\ log[d][Len(log[d])] = [ev |-> "return", value |-> -1]
              /\ pc[d] = "idle"
              /\ ~db[d].is_connected
              /\ db[d].con = c
              /\ c \notin ClosedSet(d))
  /\ [][\A d \in DBs :
          \A c \in 1..(MaxCycles + 1) :
            (HandshakeFailed(log[d], c) /\ cycles'[d] # cycles[d]) =>
              /\ log'[d][1] = [ev |-> "close", con |-> c]
              /\ c \in ClosedSet(d)']_vars

\* C5 witness: a handshake failed in the previous cycle and this cycle has
\* closed the session left over from it and created a new one.
C5_Witness ==
  \E d \in DBs :
    /\ cycles[d] = 2
    /\ Len(log[d]) >= 2
    /\ log[d][1] = [ev |-> "close", con |-> 1]
    /\ log[d][2] = [ev |-> "init", con |-> 2]
    /\ closed[d] = << 1 >>

\* The sessions of d that were created and not closed.
Unclosed(d) == (1..inits[d]) \ ClosedSet(d)

\* C6: a new session is initialized only after the instance's previous
\* sessions have all been closed; so at any time every session created for
\* the instance except the one its handle holds was closed exactly once, at
\* most one session is not closed, and after the instance is freed none is.
C6_NoLeak ==
  \A d \in DBs :
    /\ Cardinality(Unclosed(d)) <= 1
    /\ Unclosed(d) = (IF registered[d] /\ db[d].con # NULL THEN {db[d].con} ELSE {})
    /\ ClosedSet(d) \subseteq 1..inits[d]
    /\ Cardinality(ClosedSet(d)) = Len(closed[d])
    /\ \A i \in 1..Len(log[d]) :
         (IsEv(log[d], i, {"init"}) /\ log[d][i].con # NULL) =>
           /\ (1..(log[d][i].con - 1)) \subseteq ClosedSet(d)
           /\ \A j \in (i + 1)..Len(log[d]) : ~IsEv(log[d], j, {"close"})

\* C6 witness: a third session is being used after the first was dropped on
\* a failed handshake and the second on a failed probe; both were closed.
C6_Witness ==
  \E d \in DBs :
    /\ inits[d] = 3 /\ closed[d] = << 1, 2 >> /\ db[d].con = 3
    /\ ProbeFailed(log[d], 2)
    /\ db[d].is_connected

\* C7: a cycle makes at most one probe, creates at most one session and
\* makes at most one connection attempt; a failed attempt ends the cycle
\* with an error right away; the instance stays registered, so that the
\* next cycle acquires again: a cycle that starts without a usable
\* connection makes exactly one attempt to create a session.
C7_OneAttempt ==
  \A d \in DBs :
    LET lg == log[d]
    IN /\ CountEv(lg, "ping") <= 1
       /\ CountEv(lg, "init") <= 1
       /\ CountEv(lg, "connect") <= 1
       /\ \A i \in 1..Len(lg) :
            ((IsEv(lg, i, {"connect"}) /\ ~lg[i].ok)
               \/ (IsEv(lg, i, {"init"}) /\ lg[i].con = NULL)) =>
              /\ Len(lg) = i + 1
              /\ lg[i + 1] = [ev |-> "return", value |-> -1]
              /\ registered[d] /\ pc[d] = "idle"
       /\ (lg # << >> /\ ~(lg[1].ev = "ping" /\ lg[1].ok)) => CountEv(lg, "init") = 1

\* C7 witness: the handshake failed in two cycles in a row; the second cycle
\* made its own single attempt, with a new session.
C7_Witness ==
  \E d \in DBs :
    /\ cycles[d] = 2 /\ registered[d]
    /\ log[d] = << [ev |-> "close", con |-> 1], [ev |-> "init", con |-> 2],
                   [ev |-> "connect", con |-> 2, ok |-> FALSE],
                   [ev |-> "return", value |-> -1] >>

----------------------------------------------------------------------------
(* Poll cycle: properties *)

StatusTexts == {"SHOW STATUS", "SHOW GLOBAL STATUS"}

InnodbTexts ==
  {"SELECT name, count, type FROM information_schema.innodb_metrics WHERE enabled",
   "SELECT name, count, type FROM information_schema.innodb_metrics WHERE status = 'enabled'"}

PrimaryTexts == {"SHOW MASTER STATUS"}
ReplicaTexts == {"SHOW SLAVE STATUS"}
WsrepTexts   == {"SHOW GLOBAL STATUS LIKE 'wsrep_%'"}

\* The positions at which one of the statements was run.
QueryIdx(lg, texts) == {i \in 1..Len(lg) : lg[i].ev = "query" /\ lg[i].query \in texts}

\* The acquire of the cycle failed (no session could be created, or the
\* handshake failed).
AcquireFailed(lg) ==
  \E i \in 1..Len(lg) :
    \/ lg[i].ev = "connect" /\ ~lg[i].ok
    \/ lg[i].ev = "init" /\ lg[i].con = NULL

\* The global status query of the cycle failed / succeeded.
StatusFailed(lg) == \E i \in QueryIdx(lg, StatusTexts) : ~lg[i].ok
StatusOk(lg) == \E i \in QueryIdx(lg, StatusTexts) : lg[i].ok

\* C8: when acquire or the global status query fails, the cycle ends at once
\* with -1: it has emitted no metric and no notification, has run no
\* sub-query, and no step of it changes the replica health flags.
C8_AbortEmitsNothing ==
  /\ [](\A d \in DBs :
          (AcquireFailed(log[d]) \/ StatusFailed(log[d])) =>
            /\ pc[d] = "idle"
            /\ log[d][Len(log[d])] = [ev |-> "return", value |-> -1]
            /\ CountEv(log[d], "submit") = 0
            /\ CountEv(log[d], "notify") = 0
            /\ CountEv(log[d], "query") = (IF StatusFailed(log[d]) THEN 1 ELSE 0)
            /\ CountEv(log[d], "return") = 1)
  /\ [][\A d \in DBs :
          (pc[d] \in {"idle", "status"} /\ registered'[d]) =>
            /\ db'[d].replica_io_running = db[d].replica_io_running
            /\ db'[d].replica_sql_running = db[d].replica_sql_running
            /\ notified'[d] = notified[d]]_vars

\* C8 witness: the status query failed on a probed connection in a cycle of
\* an instance whose tracker had stored `not running' for both threads.
C8_Witness ==
  \E d \in DBs :
    /\ StatusFailed(log[d])
    /\ log[d][1].ev = "ping"
    /\ ~db[d].replica_io_running /\ ~db[d].replica_sql_running
    /\ Len(notified[d]) = 2

\* The submits a sub-query made: those after position i and before the next
\* statement.
SegmentIdx(lg, i, kind) ==
  {j \in (i + 1)..Len(lg) :
     /\ lg[j].ev = kind
     /\ \A k \in (i + 1)..j : lg[k].ev # "query"}

HasSubmit(lg, i, type, type_instance) ==
  \E j \in SegmentIdx(lg, i, "submit") :
    lg[j].type = type /\ lg[j].type_instance = type_instance

\* A sub-query that must run (want) ran exactly once; when it succeeded its
\* metrics (expected(i) at its position i) were emitted, when it failed it
\* emitted nothing.
RanAlone(lg, texts, want, expected(_)) ==
  want => /\ Cardinality(QueryIdx(lg, texts)) = 1
          /\ \A i \in QueryIdx(lg, texts) :
               IF lg[i].ok THEN expected(i)
               ELSE SegmentIdx(lg, i, "submit") = {} /\ SegmentIdx(lg, i, "notify") = {}

\* C9: once the global status query has succeeded the cycle never returns an
\* error and ends with 0; every enabled sub-query is run whatever happened
\* to the others, emits its metrics when it succeeds and nothing when it fails.
C9_SubQueriesIndependent ==
  \A d \in DBs :
    LET lg == log[d]
    IN StatusOk(lg) =>
         /\ \A i \in 1..Len(lg) : lg[i].ev = "return" => lg[i].value = 0
         /\ pc[d] = "idle" =>
              /\ lg[Len(lg)] = [ev |-> "return", value |-> 0]
              /\ RanAlone(lg, InnodbTexts,
                          db[d].innodb_stats /\ db[d].mysql_version >= 50600,
                          LAMBDA i : HasSubmit(lg, i, "mysql_locks", "lock_deadlocks"))
              /\ RanAlone(lg, PrimaryTexts, db[d].primary_stats,
                          LAMBDA i : HasSubmit(lg, i, "mysql_log_position", "master-bin"))
              /\ RanAlone(lg, ReplicaTexts, db[d].replica_stats \/ db[d].replica_notif,
                          LAMBDA i : db[d].replica_stats =>
                                       /\ HasSubmit(lg, i, "bool", "slave-io-running")
                                       /\ HasSubmit(lg, i, "bool", "slave-sql-running")
                                       /\ HasSubmit(lg, i, "mysql_log_position", "slave-read")
                                       /\ HasSubmit(lg, i, "mysql_log_position", "slave-exec"))
              /\ RanAlone(lg, WsrepTexts, db[d].wsrep_stats,
                          LAMBDA i : HasSubmit(lg, i, "gauge", "wsrep_cluster_size"))

\* C9 witness: a cycle ended with 0 in which the InnoDB query failed while
\* the primary, replica and cluster queries ran and emitted their metrics.
C9_Witness ==
  \E d \in DBs :
    LET lg == log[d]
    IN /\ pc[d] = "idle" /\ StatusOk(lg)
       /\ \E i \in QueryIdx(lg, InnodbTexts) : ~lg[i].ok
       /\ \E i \in QueryIdx(lg, PrimaryTexts) :
            HasSubmit(lg, i, "mysql_log_position", "master-bin")
       /\ \E i \in QueryIdx(lg, ReplicaTexts) : HasSubmit(lg, i, "bool", "slave-io-running")
       /\ \E i \in QueryIdx(lg, WsrepTexts) : HasSubmit(lg, i, "gauge", "wsrep_cluster_size")

\* C10: in a cycle that passed the global status query and ended, each
\* sub-query was run once if its own gate holds and not at all otherwise:
\* InnoDB iff the InnoDB flag is set and the version is at least 50600,
\* primary iff the primary flag, replica iff the replica statistics or the
\* replica notifications flag, cluster iff the cluster flag.
C10_Gates ==
  \A d \in DBs :
    LET lg == log[d]
        Runs(texts) == Cardinality(QueryIdx(lg, texts))
        Once(gate) == IF gate THEN 1 ELSE 0
    IN (pc[d] = "idle" /\ StatusOk(lg)) =>
         /\ Runs(InnodbTexts) = Once(db[d].innodb_stats /\ db[d].mysql_version >= 50600)
         /\ Runs(PrimaryTexts) = Once(db[d].primary_stats)
         /\ Runs(ReplicaTexts) = Once(db[d].replica_stats \/ db[d].replica_notif)
         /\ Runs(WsrepTexts) = Once(db[d].wsrep_stats)
         /\ Runs(StatusTexts) = 1
         /\ CountEv(lg, "query") = Runs(InnodbTexts) + Runs(PrimaryTexts)
                                    + Runs(ReplicaTexts) + Runs(WsrepTexts) + 1

\* C10 witness: a cycle at version 50600 ran the InnoDB and the replica
\* query (the latter for notifications only) and neither the primary nor
\* the cluster query.
C10_Witness ==
  \E d \in DBs :
    LET lg == log[d]
    IN /\ pc[d] = "idle" /\ StatusOk(lg)
       /\ db[d].mysql_version = 50600
       /\ db[d].innodb_stats /\ db[d].replica_notif /\ ~db[d].replica_stats
       /\ ~db[d].primary_stats /\ ~db[d].wsrep_stats
       /\ QueryIdx(lg, InnodbTexts) # {} /\ QueryIdx(lg, ReplicaTexts) # {}
       /\ QueryIdx(lg, PrimaryTexts) = {} /\ QueryIdx(lg, WsrepTexts) = {}

----------------------------------------------------------------------------
(* Replica metrics: properties *)

\* The positions at which the replica status row was taken with at least 33
\* columns: the row is processed.
ReplicaRowIdx(lg) ==
  {i \in 1..Len(lg) : /\ lg[i].ev = "fetch_row" /\ lg[i].query \in ReplicaTexts
                      /\ lg[i].field_num >= 33}

\* The number of submits of one series after position i of the cycle.
SubmitsAfter(lg, i, type, type_instance) ==
  Cardinality({j \in (i + 1)..Len(lg) :
                 /\ lg[j].ev = "submit" /\ lg[j].type = type
                 /\ lg[j].type_instance = type_instance})

\* The two running booleans and the two log positions, once each.
FourReplicaMetrics(lg, i) ==
  /\ SubmitsAfter(lg, i, "bool", "slave-sql-running") = 1
  /\ SubmitsAfter(lg, i, "bool", "slave-io-running") = 1
  /\ SubmitsAfter(lg, i, "mysql_log_position", "slave-read") = 1
  /\ SubmitsAfter(lg, i, "mysql_log_position", "slave-exec") = 1

\* C11 as stated: whenever replica statistics are enabled and a replica
\* status row is processed, the two running booleans, the read and exec log
\* positions and the lag-seconds gauge are all emitted in that cycle.
C11_AllReplicaMetrics ==
  \A d \in DBs :
    \A i \in ReplicaRowIdx(log[d]) :
      db[d].replica_stats =>
        /\ FourReplicaMetrics(log[d], i)
        /\ SubmitsAfter(log[d], i, "time_offset", NullStr) = 1

\* C11 amended: whenever replica statistics are enabled and a replica status
\* row is processed, the two running booleans and the two log positions are
\* emitted once each, whatever the notification flag, the stored flags and
\* the values are; the lag-seconds gauge is emitted iff the lag column of the
\* row is not NULL.  With statistics disabled none of them is emitted.
C11_ReplicaMetrics ==
  \A d \in DBs :
    \A i \in ReplicaRowIdx(log[d]) :
      LET lg == log[d]
          metrics == Cardinality({j \in (i + 1)..Len(lg) : lg[j].ev = "submit"})
          lag == SubmitsAfter(lg, i, "time_offset", NullStr)
      IN IF db[d].replica_stats
         THEN /\ FourReplicaMetrics(lg, i)
              /\ lag = (IF lg[i].row.seconds_behind # NullStr THEN 1 ELSE 0)
              /\ metrics = 4 + lag
         ELSE metrics = 0

\* C11 witness: statistics and notifications are both enabled, the stored
\* flags are both false, and a row with both threads stopped and a NULL lag
\* was processed: four metrics, no lag gauge, no notification in the cycle.
C11_Witness ==
  \E d \in DBs :
    \E i \in ReplicaRowIdx(log[d]) :
      /\ db[d].replica_stats /\ db[d].replica_notif
      /\ ~db[d].replica_io_running /\ ~db[d].replica_sql_running
      /\ CountEv(log[d], "notify") = 0 /\ Len(notified[d]) = 2
      /\ log[d][i].row.seconds_behind = NullStr
      /\ FourReplicaMetrics(log[d], i)
      /\ SubmitsAfter(log[d], i, "time_offset", NullStr) = 0

----------------------------------------------------------------------------
(* Classifiers: properties *)

\* The rows of one statement's result that the cycle fetched: the positions
\* of their fetch events.
FetchIdx(lg, texts) ==
  {j \in 1..Len(lg) : lg[j].ev = "fetch_row" /\ lg[j].query \in texts}

\* The submits made for the row fetched at position j: those before the
\* next fetch and before the release of the result.
RowEmissions(lg, j) ==
  LET stop == {k \in (j + 1)..Len(lg) : lg[k].ev \in {"fetch_row", "free_result", "query"}}
      last == IF stop = {} THEN Len(lg)
              ELSE (CHOOSE k \in stop : \A l \in stop : k <= l) - 1
  IN SubSeq(lg, j + 1, last)

\* The names of a lookup table.
TableNames(metrics) == {metrics[i].key : i \in 1..Len(metrics)}

TableEntry(metrics, name) == metrics[CHOOSE i \in 1..Len(metrics) : metrics[i].key = name]

\* C12 as stated: every row of the cluster status result set yields exactly
\* one metric when its name is in the lookup table, of the table's series
\* and kind and with the name as sub-label, and nothing when it is not, so
\* the emissions of the sub-query are as many as the rows whose name is in
\* the table, whatever their position.
C12_OnePerRow ==
  \A d \in DBs :
    LET lg == log[d]
        rows == FetchIdx(lg, WsrepTexts)
    IN /\ \A j \in rows :
            LET name == lg[j].row[1]
            IN IF name \in TableNames(WsrepMetrics)
               THEN /\ Len(RowEmissions(lg, j)) = 1
                    /\ RowEmissions(lg, j)[1].ev = "submit"
                    /\ RowEmissions(lg, j)[1].type = TableEntry(WsrepMetrics, name).type
                    /\ RowEmissions(lg, j)[1].ds = TableEntry(WsrepMetrics, name).ds
                    /\ RowEmissions(lg, j)[1].type_instance = name
               ELSE RowEmissions(lg, j) = << >>
       /\ \A i \in QueryIdx(lg, WsrepTexts) :
            Cardinality(SegmentIdx(lg, i, "submit"))
              = Cardinality({j \in rows : lg[j].row[1] \in TableNames(WsrepMetrics)})

----------------------------------------------------------------------------
(* Poll cycle: order of the stages *)

\* The series of the accumulated groups (query cache, threads, traffic).
AggregateTypes == {"cache_result", "cache_size", "threads", "total_threads", "mysql_octets"}

AggregateIdx(lg) == {i \in 1..Len(lg) : lg[i].ev = "submit" /\ lg[i].type \in AggregateTypes}

\* The statements of the optional sub-queries.
SubQueryTexts == InnodbTexts \cup PrimaryTexts \cup ReplicaTexts \cup WsrepTexts

\* The submits made by the optional sub-queries.
SubQuerySubmitIdx(lg) ==
  {j \in 1..Len(lg) :
     /\ lg[j].ev = "submit"
     /\ \E i \in QueryIdx(lg, SubQueryTexts) : i < j}

\* Every position of the first set is before every position of the second.
Precedes(A, B) == \A i \in A, j \in B : i < j

\* C13 as stated: the aggregate emissions come after the optional
\* sub-queries: no aggregate emission precedes an emission of an optional
\* sub-query in the same cycle.
C13_AggregatesLast ==
  \A d \in DBs : Precedes(SubQuerySubmitIdx(log[d]), AggregateIdx(log[d]))

\* C13 amended: in every cycle the connection is acquired first, then the
\* global status query is run, its rows are classified and emitted and the
\* result is released, then the accumulated groups are emitted (query cache,
\* threads, traffic, in this order), and only then the optional sub-queries
\* are run, in the order InnoDB, primary, replica, cluster.
C13_StageOrder ==
  \A d \in DBs :
    LET lg == log[d]
        acquire == {i \in 1..Len(lg) : lg[i].ev \in {"ping", "close", "init", "connect"}}
        status == QueryIdx(lg, StatusTexts)
        rows == FetchIdx(lg, StatusTexts)
        rowsubmits == {j \in 1..Len(lg) :
                         /\ lg[j].ev = "submit" /\ lg[j].type \notin AggregateTypes
                         /\ QueryIdx(lg, SubQueryTexts) \cap 1..j = {}}
        release == {i \in 1..Len(lg) : lg[i].ev = "free_result" /\ lg[i].query \in StatusTexts}
        Of(types) == {i \in AggregateIdx(lg) : lg[i].type \in types}
    IN /\ Precedes(acquire, 1..Len(lg) \ acquire)
       /\ Precedes(status, rows \cup rowsubmits)
       /\ Precedes(rows \cup rowsubmits, release)
       /\ Precedes(release, AggregateIdx(lg))
       /\ Precedes(Of({"cache_result", "cache_size"}), Of({"threads", "total_threads"}))
       /\ Precedes(Of({"threads", "total_threads"}), Of({"mysql_octets"}))
       /\ Precedes(AggregateIdx(lg), QueryIdx(lg, SubQueryTexts))
       /\ Precedes(QueryIdx(lg, InnodbTexts), QueryIdx(lg, PrimaryTexts))
       /\ Precedes(QueryIdx(lg, InnodbTexts) \cup QueryIdx(lg, PrimaryTexts),
                   QueryIdx(lg, ReplicaTexts))
       /\ Precedes(QueryIdx(lg, SubQueryTexts) \ QueryIdx(lg, WsrepTexts),
                   QueryIdx(lg, WsrepTexts))
       /\ (pc[d] # "status" /\ StatusOk(lg)) =>
            /\ Cardinality(release) = 1
            /\ Cardinality(Of({"mysql_octets"})) = 1

\* C13 witness: a finished cycle that emitted rows, the three accumulated
\* groups and metrics of all four sub-queries.
C13_Witness ==
  \E d \in DBs :
    LET lg == log[d]
        Of(types) == {i \in AggregateIdx(lg) : lg[i].type \in types}
    IN /\ pc[d] = "idle" /\ StatusOk(lg)
       /\ Of({"cache_result"}) # {} /\ Of({"threads"}) # {} /\ Of({"mysql_octets"}) # {}
       /\ \A texts \in {InnodbTexts, PrimaryTexts, ReplicaTexts, WsrepTexts} :
            \E i \in QueryIdx(lg, texts) : SegmentIdx(lg, i, "submit") # {}
       /\ \E j \in 1..Len(lg) : lg[j].ev = "submit" /\ lg[j].type = "mysql_commands"

----------------------------------------------------------------------------
(* Statement dialect: properties *)

\* C14: the global status statement a cycle runs is SHOW GLOBAL STATUS when
\* the recorded server version is at least 50002 (50002 included) and SHOW
\* STATUS below; the InnoDB metrics statement it runs is the `WHERE enabled'
\* text when the version is at least 100500 (100500 included) and the
\* `WHERE status = 'enabled'' text below.  A cycle that got past the global
\* status query ran exactly one of the two status statements.
C14_DialectCutoff ==
  \A d \in DBs :
    LET lg == log[d]
        version == db[d].mysql_version
    IN /\ \A i \in QueryIdx(lg, StatusTexts) :
            lg[i].query = (IF version >= 50002 THEN "SHOW GLOBAL STATUS" ELSE "SHOW STATUS")
       /\ \A i \in QueryIdx(lg, InnodbTexts) :
            lg[i].query =
              (IF version >= 100500
               THEN "SELECT name, count, type FROM information_schema.innodb_metrics WHERE enabled"
               ELSE "SELECT name, count, type FROM information_schema.innodb_metrics WHERE status = 'enabled'")
       /\ (pc[d] \notin {"idle", "status"} \/ StatusOk(lg) \/ StatusFailed(lg)) =>
            Cardinality(QueryIdx(lg, StatusTexts)) = 1
       /\ \A i \in QueryIdx(lg, SubQueryTexts \ InnodbTexts) :
            lg[i].query \in {PrimaryQuery, ReplicaQuery, WsrepQuery}

\* C14 witness: the instance is connected to a server of version 50002, the
\* boundary, and its cycle ran SHOW GLOBAL STATUS.
C14_Witness ==
  \E d \in DBs :
    /\ db[d].mysql_version = 50002
    /\ \E i \in QueryIdx(log[d], StatusTexts) :
         log[d][i].ok /\ log[d][i].query = "SHOW GLOBAL STATUS"

\* The step at hand is the acquire of a new cycle of d.
AcquireStep(d) == pc[d] = "idle" /\ cycles'[d] # cycles[d]

\* The acquire reuses the connection: the probe succeeded.
ReuseStep(d) ==
  /\ AcquireStep(d)
  /\ log'[d] # << >> /\ log'[d][1].ev = "ping" /\ log'[d][1].ok

\* The acquire completed a handshake.
HandshakeStep(d) ==
  /\ AcquireStep(d)
  /\ \E i \in 1..Len(log'[d]) : log'[d][i].ev = "connect" /\ log'[d][i].ok

\* C15: the recorded server version of a registered instance changes only in
\* a step that completes a connection handshake: probes, failed connection
\* attempts, queries and classification leave it as it is.  The statements
\* of a cycle are those of the recorded version, so a cycle that reuses the
\* connection selects the statements of the cycle before it.
C15_VersionFrame ==
  /\ [](\A d \in DBs :
          /\ \A i \in QueryIdx(log[d], StatusTexts) : log[d][i].query = StatusQuery(db[d])
          /\ \A i \in QueryIdx(log[d], InnodbTexts) : log[d][i].query = InnodbQuery(db[d]))
  /\ [][\A d \in DBs :
          registered'[d] =>
            /\ db'[d].mysql_version # db[d].mysql_version => HandshakeStep(d)
            /\ ReuseStep(d) =>
                 /\ db'[d].mysql_version = db[d].mysql_version
                 /\ con'[d] = con[d]
                 /\ \A i \in QueryIdx(log[d], StatusTexts) :
                      log[d][i].query = StatusQuery(db'[d])
                 /\ \A i \in QueryIdx(log[d], InnodbTexts) :
                      log[d][i].query = InnodbQuery(db'[d])]_vars

\* C15 witness: the third cycle of an instance runs on the connection
\* established in the first one, to a server of version 50001, and runs the
\* legacy status statement.
C15_Witness ==
  \E d \in DBs :
    /\ cycles[d] = 3 /\ inits[d] = 1
    /\ log[d] # << >> /\ log[d][1] = EvPing(con[d], TRUE)
    /\ db[d].mysql_version = 50001
    /\ \E i \in QueryIdx(log[d], StatusTexts) : log[d][i].query = "SHOW STATUS"

----------------------------------------------------------------------------
(* Global status classifier: properties *)

\* The rows of the global status result the cycle fetched, in order.
StatusRowsOf(lg) ==
  LET f == SelectSeq(lg, LAMBDA e : e.ev = "fetch_row" /\ e.query \in StatusTexts)
  IN [i \in 1..Len(f) |-> f[i].row]

\* The numeric value of a row.
Value(row) == atoll(row[2])

\* The value of the last row with the key, or the default when there is none.
LastValue(rows, key, default) ==
  LET at == {i \in 1..Len(rows) : rows[i][1] = key}
  IN IF at = {} THEN default
     ELSE Value(rows[CHOOSE i \in at : \A k \in at : k <= i])

\* The sum of the values of the rows with the key.
RECURSIVE SumValues(_, _)
SumValues(rows, key) ==
  IF rows = << >> THEN 0
  ELSE (IF Head(rows)[1] = key THEN Value(Head(rows)) ELSE 0) + SumValues(Tail(rows), key)

\* The emissions of a cycle in some series: series, sub-label, kind, value.
Emitted(lg, types) ==
  LET e == SelectSeq(lg, LAMBDA x : x.ev = "submit" /\ x.type \in types)
  IN [i \in 1..Len(e) |-> << e[i].type, e[i].type_instance, e[i].ds, e[i].values >>]

\* The row pass of the cycle is over.
RowPassDone(d) == StatusOk(log[d])

\* C16: after the row pass the query cache batch is emitted iff one of the
\* accumulators hits, inserts, not_cached, lowmem_prunes is not zero; it
\* consists of exactly five emissions, four derive and one gauge, with the
\* values of the accumulators, zero or never set included; the number of
\* queries in the cache does not trigger it.
C16_QcacheBatch ==
  \A d \in DBs :
    RowPassDone(d) =>
      LET rows == StatusRowsOf(log[d])
          hits == LastValue(rows, "Qcache_hits", 0)
          inserts == LastValue(rows, "Qcache_inserts", 0)
          not_cached == LastValue(rows, "Qcache_not_cached", 0)
          prunes == LastValue(rows, "Qcache_lowmem_prunes", 0)
          in_cache == LastValue(rows, "Qcache_queries_in_cache", NAN)
      IN Emitted(log[d], {"cache_result", "cache_size"}) =
           (IF hits # 0 \/ inserts # 0 \/ not_cached # 0 \/ prunes # 0
            THEN << << "cache_result", "qcache-hits", "derive", << hits >> >>,
                    << "cache_result", "qcache-inserts", "derive", << inserts >> >>,
                    << "cache_result", "qcache-not_cached", "derive", << not_cached >> >>,
                    << "cache_result", "qcache-prunes", "derive", << prunes >> >>,
                    << "cache_size", "qcache", "gauge", << in_cache >> >> >>
            ELSE << >>)

\* C16 witness: only Qcache_lowmem_prunes was present and not zero: the five
\* emissions were made, with hits 0 and the gauge never set.
C16_Witness ==
  \E d \in DBs :
    /\ RowPassDone(d)
    /\ LastValue(StatusRowsOf(log[d]), "Qcache_lowmem_prunes", 0) = 2
    /\ \A i \in 1..Len(StatusRowsOf(log[d])) : StatusRowsOf(log[d])[i][1] # "Qcache_hits"
    /\ Len(Emitted(log[d], {"cache_result", "cache_size"})) = 5
    /\ Emitted(log[d], {"cache_result"})[1] = << "cache_result", "qcache-hits", "derive", << 0 >> >>
    /\ Emitted(log[d], {"cache_size"}) = << << "cache_size", "qcache", "gauge", << NAN >> >> >>

\* C17: for every global status row whose key starts with Com_: when the
\* value is zero or the key starts with Com_stmt_ nothing is emitted for the
\* row; otherwise exactly one emission is made for it, a derive of the
\* commands series whose sub-label is the key without Com_ and whose value
\* is the value of the row.  No other row emits in that series.
C17_ComRule ==
  \A d \in DBs :
    LET lg == log[d]
        com == {j \in FetchIdx(lg, StatusTexts) : StartsWith(lg[j].row[1], "Com_")}
        emitting == {j \in com : Value(lg[j].row) # 0 /\ ~StartsWith(lg[j].row[1], "Com_stmt_")}
    IN /\ \A j \in com \ emitting : RowEmissions(lg, j) = << >>
       /\ \A j \in emitting :
            /\ Len(RowEmissions(lg, j)) = 1
            /\ RowEmissions(lg, j)[1].ev = "submit"
            /\ RowEmissions(lg, j)[1].type = "mysql_commands"
            /\ RowEmissions(lg, j)[1].ds = "derive"
            /\ "Com_" \o RowEmissions(lg, j)[1].type_instance = lg[j].row[1]
            /\ RowEmissions(lg, j)[1].values = << Value(lg[j].row) >>
       /\ Len(Emitted(lg, {"mysql_commands"})) = Cardinality(emitting)

\* C17 witness: the rows Com_select 5, Com_insert 0 and Com_stmt_execute 4
\* were classified and the only commands emission is select = 5.
C17_Witness ==
  \E d \in DBs :
    LET lg == log[d]
        Fetched(key, val) == \E j \in FetchIdx(lg, StatusTexts) : lg[j].row = << key, val >>
    IN /\ RowPassDone(d)
       /\ Fetched("Com_select", "5") /\ Fetched("Com_insert", "0")
       /\ Fetched("Com_stmt_execute", "4")
       /\ Emitted(lg, {"mysql_commands"}) = << << "mysql_commands", "select", "derive", << 5 >> >> >>

\* C18: a cycle whose global status rows were classified makes exactly one
\* traffic emission, after the last row, with the sums of the Bytes_received
\* and the Bytes_sent values as its two derive values; it makes it also when
\* both are zero and when there was no Bytes_ row.
C18_TrafficOnce ==
  \A d \in DBs :
    LET lg == log[d]
        rows == StatusRowsOf(lg)
        traffic == {i \in 1..Len(lg) : lg[i].ev = "submit" /\ lg[i].type = "mysql_octets"}
    IN /\ RowPassDone(d) =>
            /\ Emitted(lg, {"mysql_octets"})
                 = << << "mysql_octets", NullStr, "derive",
                         << SumValues(rows, "Bytes_received"), SumValues(rows, "Bytes_sent") >> >> >>
            /\ Precedes(FetchIdx(lg, StatusTexts), traffic)
       /\ ~RowPassDone(d) => traffic = {}

\* C18 witness: a result without any Bytes_ row was classified and the
\* traffic emission was made with both values zero.
C18_Witness ==
  \E d \in DBs :
    LET rows == StatusRowsOf(log[d])
    IN /\ RowPassDone(d)
       /\ rows # << >>
       /\ \A i \in 1..Len(rows) : ~StartsWith(rows[i][1], "Bytes_")
       /\ Emitted(log[d], {"mysql_octets"})
            = << << "mysql_octets", NullStr, "derive", << 0, 0 >> >> >>

\* C19: after the row pass the thread batch is emitted iff the captured
\* Threads_created value is not zero: then the gauges running, connected and
\* cached and the derive created are emitted together, with the captured
\* values; when Threads_created is zero or absent none of the four is
\* emitted, whatever the other three are.
C19_ThreadsBatch ==
  \A d \in DBs :
    RowPassDone(d) =>
      LET rows == StatusRowsOf(log[d])
          created == LastValue(rows, "Threads_created", 0)
      IN Emitted(log[d], {"threads", "total_threads"}) =
           (IF created # 0
            THEN << << "threads", "running", "gauge",
                       << LastValue(rows, "Threads_running", NAN) >> >>,
                    << "threads", "connected", "gauge",
                       << LastValue(rows, "Threads_connected", NAN) >> >>,
                    << "threads", "cached", "gauge",
                       << LastValue(rows, "Threads_cached", NAN) >> >>,
                    << "total_threads", "created", "derive", << created >> >> >>
            ELSE << >>)

\* C19 witness: Threads_running, Threads_connected and Threads_cached were
\* present and not zero, Threads_created was zero, and nothing of the batch
\* was emitted.
C19_Witness ==
  \E d \in DBs :
    LET rows == StatusRowsOf(log[d])
    IN /\ RowPassDone(d)
       /\ LastValue(rows, "Threads_running", NAN) = 3
       /\ LastValue(rows, "Threads_connected", NAN) = 2
       /\ LastValue(rows, "Threads_cached", NAN) = 1
       /\ \E i \in 1..Len(rows) : rows[i] = << "Threads_created", "0" >>
       /\ Emitted(log[d], {"threads", "total_threads"}) = << >>

\* The keys the accumulating branches and the exact comparisons know.
QcacheNames == {"Qcache_hits", "Qcache_inserts", "Qcache_not_cached", "Qcache_lowmem_prunes",
                "Qcache_queries_in_cache"}
BytesNames == {"Bytes_received", "Bytes_sent"}
ThreadsNames == {"Threads_running", "Threads_connected", "Threads_cached", "Threads_created"}
SortNames == {"Sort_merge_passes", "Sort_rows", "Sort_range", "Sort_scan"}
InnodbNames == TableNames(InnodbBufferPoolChain) \cup TableNames(InnodbOtherChain)

\* The key matches one of the classification rules other than those of
\* Slow_queries, Uptime and Questions.
MatchesRule(key, innodb_stats) ==
  \/ \E p \in {"Com_", "Handler_", "Table_locks_", "Select_"} : StartsWith(key, p)
  \/ key \in QcacheNames \cup BytesNames \cup ThreadsNames \cup SortNames
  \/ innodb_stats /\ key \in InnodbNames

\* The status rows the cycle fetched whose key does not satisfy Matched.
UnmatchedIdx(lg, Matched(_)) == {j \in FetchIdx(lg, StatusTexts) : ~Matched(lg[j].row[1])}

\* The rows of a result whose key satisfies Matched.
MatchedRows(rows, Matched(_)) == SelectSeq(rows, LAMBDA r : Matched(r[1]))

\* No unmatched row of the cycle emitted anything, and the accumulated
\* groups emitted after the pass are those of the matched rows alone: the
\* unmatched rows changed no accumulator.  The cycle went on (no error).
UnmatchedSilent(d, Matched(_)) ==
  LET lg == log[d]
  IN /\ \A j \in UnmatchedIdx(lg, Matched) : RowEmissions(lg, j) = << >>
     /\ RowPassDone(d) =>
          /\ SelectSeq(lg, LAMBDA e : e.ev = "submit" /\ e.type \in AggregateTypes)
               = SelectSeq(StatusCalls(MatchedRows(StatusRowsOf(lg), Matched), db[d]),
                           LAMBDA e : e.ev = "submit" /\ e.type \in AggregateTypes)
          /\ \A i \in 1..Len(lg) : lg[i].ev = "return" => lg[i].value = 0

\* C20 as stated: a global status row whose key matches no rule, Slow_queries,
\* Uptime and Questions being exact names, produces no emission, changes no
\* accumulator and raises no error.
C20_UnmatchedSilent ==
  \A d \in DBs :
    UnmatchedSilent(d, LAMBDA key : \/ MatchesRule(key, db[d].innodb_stats)
                                    \/ key \in {"Slow_queries", "Uptime", "Questions"})

\* What the code does keep of C20: with Slow_queries compared as a prefix,
\* as line 921 compares it, every other row that matches no rule is silent:
\* every Innodb_ key with the InnoDB statistics disabled, every Innodb_ key
\* that is not in the exact-match table with them enabled, and every key
\* that extends Uptime or Questions.
UnmatchedSilentPrefix ==
  \A d \in DBs :
    UnmatchedSilent(d, LAMBDA key : \/ MatchesRule(key, db[d].innodb_stats)
                                    \/ StartsWith(key, "Slow_queries")
                                    \/ key \in {"Uptime", "Questions"})

\* With the InnoDB statistics enabled a result was classified whose rows all
\* match no rule (among them Uptime_since_flush_status, Questions_total,
\* Innodb_unknown and Innodb_rows_read_total): no row emitted and the
\* traffic emission carries zeros.
UnmatchedResultSilent ==
  \E d \in DBs :
    LET lg == log[d]
        rows == StatusRowsOf(lg)
        Has(key) == \E i \in 1..Len(rows) : rows[i][1] = key
    IN /\ RowPassDone(d) /\ db[d].innodb_stats
       /\ Has("Uptime_since_flush_status") /\ Has("Questions_total")
       /\ Has("Innodb_unknown") /\ Has("Innodb_rows_read_total")
       /\ \A j \in FetchIdx(lg, StatusTexts) : RowEmissions(lg, j) = << >>
       /\ Emitted(lg, AggregateTypes) = << << "mysql_octets", NullStr, "derive", << 0, 0 >> >> >>

\* The row Slow_queries_total of a classified result was emitted as the
\* slow queries series.
SlowQueriesExtended ==
  \E d \in DBs :
    \E j \in FetchIdx(log[d], StatusTexts) :
      /\ log[d][j].row[1] = "Slow_queries_total"
      /\ Len(RowEmissions(log[d], j)) = 1
      /\ RowEmissions(log[d], j)[1].type = "mysql_slow_queries"

----------------------------------------------------------------------------
(* Host name: properties *)

\* The metrics and the notifications among the events of s.
Emissions(s) == SelectSeq(s, LAMBDA e : e.ev \in {"submit", "notify"})

\* C21: every metric and every notification of a configured instance (one
\* whose struct was not released yet) carries the alias
\* when one is configured; otherwise the default host identity when the Host
\* option is unset, empty, "127.0.0.1" or "localhost"; otherwise the
\* configured host.  Without an alias and with an empty Host option it is
\* the default host identity, never the empty string.
C21_HostName ==
  \A d \in DBs :
    LET alias == db[d].alias
        host == db[d].host
        all == Emissions(log[d]) \o notified[d]
    IN registered[d] => \A i \in 1..Len(all) :
         /\ alias # NullStr => all[i].host = alias
         /\ (alias = NullStr /\ host \in {NullStr, "", "127.0.0.1", "localhost"}) =>
              all[i].host = hostname_g
         /\ (alias = NullStr /\ host \notin {NullStr, "", "127.0.0.1", "localhost"}) =>
              all[i].host = host
         /\ (alias = NullStr /\ host = "") => all[i].host # ""
         /\ all[i].plugin_instance = db[d].instance

\* C21 witness: an instance with an empty Host option and no alias has
\* emitted metrics and two notifications, all under the default identity.
C21_Witness ==
  \E d \in DBs :
    /\ db[d].alias = NullStr /\ db[d].host = ""
    /\ CountEv(log[d], "submit") > 0 /\ CountEv(log[d], "notify") = 2
    /\ \A i \in 1..Len(log[d]) :
         log[d][i].ev \in {"submit", "notify"} => log[d][i].host = "monitor"

----------------------------------------------------------------------------
(* Configuration load: properties *)

\* The option names of a <Database> block.
OptionNames ==
  {"alias", "host", "user", "password", "port", "socket", "database", "sslkey", "sslcert",
   "sslca", "sslcapath", "sslcipher", "connecttimeout", "masterstats", "slavestats",
   "slavenotifications", "innodbstats", "wsrepstats"}

\* The option is unrecognized or its value fails to parse.
BadOption(o) == ToLower(o.key) \notin OptionNames \/ o.status < 0

\* The position of the first bad option of a block, 0 when it has none.
FirstBad(opts) ==
  LET bad == {i \in 1..Len(opts) : BadOption(opts[i])}
  IN IF bad = {} THEN 0 ELSE CHOOSE i \in bad : \A j \in bad : i <= j

\* The keys of the options processed, in order.
OptionKeys(s) == [i \in 1..CountEv(s, "option") |-> SelectEv(s, "option")[i].key]

\* The struct of the block was allocated.
Allocated(s) == \E j \in 1..Len(s) : s[j].ev = "calloc" /\ s[j].ok

\* The instance of child d was rejected at load time.
Rejected(d) == pc[d] # "config" /\ CountEv(log[d], "config_database") = 1
               /\ SelectEv(log[d], "config_database")[1].status # 0

\* C22: a <Database> block with an unrecognized option or an option whose
\* value fails to parse is rejected: no read callback is registered for it,
\* its struct is released, the options after the first bad one are not
\* processed, and it is never polled afterwards; a block without a bad
\* option whose struct was allocated is registered whatever the other
\* blocks are; mysql_config returns 0.
C22_LoadRejects ==
  /\ [](\A d \in DBs :
          /\ \A i \in 1..Len(log[d]) :
               log[d][i].ev = "config_database" =>
                 LET ci == log[d][i].ci
                     k == FirstBad(ci.children)
                 IN /\ k > 0 /\ Allocated(log[d]) =>
                         /\ log[d][i].status # 0
                         /\ ~registered[d]
                         /\ db[d] = NoDatabase
                         /\ CountEv(log[d], "register") = 0
                         /\ CountEv(log[d], "free") = 1
                         /\ OptionKeys(log[d]) = [j \in 1..k |-> ci.children[j].key]
                    /\ k = 0 /\ Allocated(log[d]) =>
                         /\ log[d][i].status = 0
                         /\ registered[d]
                         /\ db[d].instance = ci.values[1].v
                         /\ CountEv(log[d], "register") = 1
                         /\ CountEv(log[d], "free") = 0
                         /\ OptionKeys(log[d]) = [j \in 1..Len(ci.children) |-> ci.children[j].key]
          /\ d = LastChild /\ pc[d] # "config" /\ cycles[d] = 0 /\ log[d] # << >> =>
               log[d][Len(log[d])] = EvReturn(0))
  /\ [][\A d \in DBs :
          Rejected(d) => /\ Rejected(d)'
                         /\ ~registered'[d]
                         /\ cycles'[d] = cycles[d]
                         /\ log'[d] = log[d]
                         /\ con'[d] = con[d]]_vars

\* The first block has an unknown option between two known ones and was
\* rejected; the second block was registered and has been polled.
C22_Witness ==
  /\ Rejected(1)
  /\ OptionKeys(log[1]) = << "Host", "Foo" >>
  /\ Len(SelectEv(log[1], "config_database")[1].ci.children) = 3
  /\ registered[2]
  /\ cycles[2] = 1
  /\ CountEv(log[2], "submit") > 0

----------------------------------------------------------------------------
(* Two instances: properties *)

\* The step at hand is a step of the poll cycle of d.
CycleStep(d) == log'[d] # log[d] \/ cycles'[d] # cycles[d] \/ pc'[d] # pc[d]

\* The step at hand is the replica sub-query of d processing a row.
ReplicaRowStep(d) ==
  /\ pc[d] = "replica" /\ pc'[d] = "wsrep"
  /\ \E i \in 1..Len(NewCalls(d)) :
       NewCalls(d)[i].ev = "fetch_row" /\ NewCalls(d)[i].field_num >= 33

\* C23: under any interleaving of the poll cycles of two instances, a step of
\* the cycle of one instance leaves the other's handle, connected flag,
\* version, health flags, calls and notifications unchanged, and what the
\* instance emits is what it emits alone: every metric and notification of
\* the step carries its own instance name, the replica metrics are those of
\* its own row, and its notifications follow the transition rule from its
\* own stored flags and its own row.
C23_Independent ==
  [][\A d \in DBs :
       CycleStep(d) =>
         /\ \A e \in DBs \ {d} :
              /\ con'[e] = con[e]
              /\ registered[e] /\ registered'[e] =>
                   /\ db'[e].con = db[e].con
                   /\ db'[e].is_connected = db[e].is_connected
                   /\ db'[e].mysql_version = db[e].mysql_version
                   /\ db'[e].replica_io_running = db[e].replica_io_running
                   /\ db'[e].replica_sql_running = db[e].replica_sql_running
              /\ log'[e] = log[e]
              /\ notified'[e] = notified[e]
         /\ \A i \in 1..Len(NewCalls(d)) :
              NewCalls(d)[i].ev \in {"submit", "notify"} =>
                /\ NewCalls(d)[i].plugin_instance = InstanceName(d)
                /\ NewCalls(d)[i].host = set_host(db[d])
         /\ notified'[d] = notified[d] \o SelectEv(NewCalls(d), "notify")
         /\ ReplicaRowStep(d) =>
              /\ SelectEv(NewCalls(d), "submit") = ReplicaStats(TrackedRow(d), db[d])
              /\ TransitionRule(Running(TrackedRow(d).io), db[d].replica_io_running,
                                db'[d].replica_io_running,
                                Severities(NewCalls(d), IoMessages))
              /\ TransitionRule(Running(TrackedRow(d).sql), db[d].replica_sql_running,
                                db'[d].replica_sql_running,
                                Severities(NewCalls(d), SqlMessages))
         /\ ~ReplicaRowStep(d) => CountEv(NewCalls(d), "notify") = 0]_vars

\* C23 witness: both instances are in the middle of a cycle; the first saw
\* its threads stopped and warned twice, the second has its threads running,
\* its flags still set, and has emitted its replica metrics without a
\* notification.
C23_Witness ==
  /\ pc[1] = "wsrep" /\ pc[2] = "wsrep"
  /\ Len(notified[1]) = 2 /\ notified[2] = << >>
  /\ ~db[1].replica_io_running /\ ~db[1].replica_sql_running
  /\ db[2].replica_io_running /\ db[2].replica_sql_running
  /\ CountEv(log[1], "notify") = 2
  /\ CountEv(log[2], "submit") > 0 /\ CountEv(log[2], "notify") = 0

----------------------------------------------------------------------------
(* Replica health tracker: frame *)

\* The notifications among the calls of the cycle at hand, before and after
\* the step: a step of the cycle only adds calls, the first step of a cycle
\* starts from none.
NotifiesBefore(d) == IF cycles'[d] # cycles[d] THEN 0 ELSE CountEv(log[d], "notify")

\* C24: the two health flags of an instance change, and notifications are
\* emitted, only in a tracker step (the replica sub-query with notifications
\* enabled and a row of at least 33 columns): every other step of a
\* configured instance (acquiring the connection or failing to, the status
\* query, the InnoDB, primary and cluster sub-queries, the replica sub-query
\* with notifications disabled, a failed query, an empty result or a row
\* with fewer columns) leaves both flags as they were and emits none.
C24_TrackerOnly ==
  [][\A d \in DBs :
       registered[d] /\ registered'[d] /\ ~TrackerStep(d) =>
         /\ db'[d].replica_io_running = db[d].replica_io_running
         /\ db'[d].replica_sql_running = db[d].replica_sql_running
         /\ notified'[d] = notified[d]
         /\ CountEv(log'[d], "notify") = NotifiesBefore(d)]_vars

\* C24 witness: with notifications enabled the replica sub-query fetched a
\* row of 32 columns whose threads are stopped: the flags still say running
\* and nothing was notified; the cluster sub-query is next.
C24_Witness ==
  \E d \in DBs :
    /\ pc[d] = "wsrep" /\ db[d].replica_notif /\ db[d].wsrep_stats
    /\ \E i \in 1..Len(log[d]) :
         /\ log[d][i].ev = "fetch_row" /\ log[d][i].query = ReplicaQuery
         /\ log[d][i].field_num = 32 /\ log[d][i].row.io = "No"
    /\ db[d].replica_io_running /\ db[d].replica_sql_running
    /\ notified[d] = << >>

----------------------------------------------------------------------------
(* Connection manager: the connected flag *)

\* The session of the handshake that succeeded in the step at hand.
HandshakeSession(d) ==
  log'[d][CHOOSE i \in 1..Len(log'[d]) : log'[d][i].ev = "connect" /\ log'[d][i].ok].con

\* C25: in every state of a configured instance the connected flag implies
\* a handle that is not NULL and was not closed, and the flag is false
\* before the first acquire; a step that completes a handshake sets the flag
\* and leaves the handle at the session of that handshake; in every other
\* step (successful or failed probe, failed mysql_init, failed handshake,
\* queries) the flag is true afterwards only if it was true before and the
\* handle is the same.  Hence the handle of a connected instance is the one
\* of the last successful handshake, and the flag is false until the first.
C25_ConnectedHandle ==
  /\ [](\A d \in DBs :
          registered[d] =>
            /\ db[d].is_connected => db[d].con # NULL /\ db[d].con \notin ClosedSet(d)
            /\ cycles[d] = 0 => ~db[d].is_connected)
  /\ [][\A d \in DBs :
          registered[d] /\ registered'[d] =>
            IF HandshakeStep(d)
            THEN db'[d].is_connected /\ db'[d].con = HandshakeSession(d)
            ELSE db'[d].is_connected =>
                   db[d].is_connected /\ db'[d].con = db[d].con]_vars

\* C25 witness: the probe of the first session failed and the second
\* session could not connect; the acquire of the next cycle closed it and
\* connected a third one, on which the instance is connected and queries.
C25_Witness ==
  \E d \in DBs :
    /\ registered[d] /\ db[d].is_connected /\ db[d].con = 3
    /\ closed[d] = << 1, 2 >>
    /\ Len(log[d]) >= 4
    /\ log[d][1] = EvClose(2) /\ log[d][3] = EvConnect(3, TRUE)
    /\ log[d][4].ev = "query" /\ log[d][4].con = 3

----------------------------------------------------------------------------
(* Replica health tracker: the sequence of notifications *)

\* Warning, OK, warning, ...: the severities alternate and start with a
\* warning.
Alternates(sev) ==
  \A i \in 1..Len(sev) :
    sev[i] = (IF i % 2 = 1 THEN "NOTIF_WARNING" ELSE "NOTIF_OKAY")

\* The positions of the notifications about one thread among the calls.
NotifyIdx(lg, messages) ==
  {i \in 1..Len(lg) : lg[i].ev = "notify" /\ lg[i].message \in messages}

\* C26: over any sequence of cycles the notifications of an instance about
\* one thread (io, sql) alternate in severity and start with a warning, so
\* no OK notification comes before a warning and no two of the same
\* severity follow each other; within one cycle there is at most one
\* notification per thread, and the one about the io thread comes before
\* the one about the sql thread.
C26_Alternation ==
  \A d \in DBs :
    /\ Alternates(Severities(notified[d], IoMessages))
    /\ Alternates(Severities(notified[d], SqlMessages))
    /\ Cardinality(NotifyIdx(log[d], IoMessages)) <= 1
    /\ Cardinality(NotifyIdx(log[d], SqlMessages)) <= 1
    /\ \A i \in NotifyIdx(log[d], IoMessages) :
         \A j \in NotifyIdx(log[d], SqlMessages) : i < j

\* C26 witness: three cycles saw the io thread stopped, running and stopped
\* again, and the sql thread stopped in the last: warning, OK, warning for
\* the io thread, and in the last cycle the io warning before the sql one.
C26_Witness ==
  \E d \in DBs :
    /\ Severities(notified[d], IoMessages)
         = << "NOTIF_WARNING", "NOTIF_OKAY", "NOTIF_WARNING" >>
    /\ Severities(notified[d], SqlMessages) = << "NOTIF_WARNING" >>
    /\ Cardinality(NotifyIdx(log[d], IoMessages)) = 1
    /\ Cardinality(NotifyIdx(log[d], SqlMessages)) = 1

----------------------------------------------------------------------------
(* Result sets: properties *)

\* The number of result sets held after call k of the cycle: those stored
\* by a successful query and not released yet.
Held(lg, k) ==
  Cardinality({i \in 1..k : lg[i].ev = "query" /\ lg[i].ok})
    - Cardinality({i \in 1..k : lg[i].ev = "free_result"})

\* The last query before call j of the cycle, 0 when there is none.
LastQuery(lg, j) ==
  LET q == {i \in 1..(j - 1) : lg[i].ev = "query"}
  IN IF q = {} THEN 0 ELSE CHOOSE i \in q : \A k \in q : k <= i

\* C27: the result set of every successful query is released exactly once,
\* by the operation that ran the query and before it returns, on every path
\* (a result that is processed, an empty one, one with too few columns, one
\* with more rows than are read): after every call of the cycle at most one
\* result set is held, each release is of the result of the last query,
\* which succeeded and was not released before, and after every operation,
\* and so at the end of a cycle that completed or was aborted, none is held.
C27_Released ==
  \A d \in DBs :
    LET lg == log[d]
    IN /\ \A k \in 1..Len(lg) : Held(lg, k) \in {0, 1}
       /\ Held(lg, Len(lg)) = 0
       /\ \A j \in 1..Len(lg) :
            /\ lg[j].ev = "free_result" =>
                 LET i == LastQuery(lg, j)
                 IN /\ i > 0 /\ lg[i].ok /\ lg[i].query = lg[j].query
                    /\ Held(lg, j - 1) = 1
            /\ lg[j].ev \in {"query", "return"} => Held(lg, j - 1) = 0

\* The result of query q was released right after call i of the cycle.
ReleasedAt(lg, i, q) == i < Len(lg) /\ lg[i + 1] = EvFreeResult(q)

\* C27 witness: a completed cycle in which the primary status had more than
\* one row, the replica status had 32 columns and the cluster status was
\* empty: five successful queries, five releases.
C27_Witness ==
  \E d \in DBs :
    LET lg == log[d]
    IN /\ lg # << >> /\ lg[Len(lg)] = EvReturn(0)
       /\ \E i \in 1..Len(lg) : lg[i] = EvWarning(PrimaryQuery)
                                /\ ReleasedAt(lg, i, PrimaryQuery)
       /\ \E i \in 1..Len(lg) : /\ lg[i].ev = "fetch_row" /\ lg[i].query = ReplicaQuery
                                /\ lg[i].field_num = 32
                                /\ ReleasedAt(lg, i, ReplicaQuery)
       /\ \E i \in 1..Len(lg) : /\ lg[i].ev = "query" /\ lg[i].query = WsrepQuery
                                /\ lg[i].ok
                                /\ ReleasedAt(lg, i, WsrepQuery)
       /\ CountEv(lg, "free_result") = 5

====
